---- MODULE Spec2Model ----
(***************************************************************************)
(* A model of termsaver: the fixed-timestep scheduler (run_effect), the     *)
(* half-block row encoder of the effects' render functions, the multi-state *)
(* cellular automaton and the loop of its step, the fireworks particle      *)
(* lifecycle, the recursive branching generators of the thunder and plasma  *)
(* effects, the metaball field of the lava lamp, the noise fields, and the  *)
(* size-dependent draws of the effects on small terminals.                  *)
(*                                                                          *)
(* Each part of the program has its own group of variables and its own      *)
(* specification (SchedSpec, RasterSpec, GolSpec, StepSpec, FwSpec, GenSpec, *)
(* ReplaySpec, LavaSpec, NoiseSpec, SmallSpec); a specification holds the   *)
(* other groups at their idle values.                                       *)
(***************************************************************************)
EXTENDS Integers, Sequences, FiniteSets, Bags, TLC

VARIABLES
    \* ---- run_effect (src/main.rs) ----
    pc,           \* position of run_effect in its loop
    accumulator,  \* the frame-time backlog, in time units of 1/180 s
    pending,      \* decoded input events waiting in the terminal's queue
    effect,       \* the active effect instance, as far as the scheduler sees it
    ops,          \* calls made on the effect in the current outer iteration
    iters,        \* outer iterations completed
    event,        \* the event read in the current outer iteration, NoEvent if none
    waiting,      \* events that were pending when the iteration began and are still unread
    error,        \* the fallible call whose error run_effect returned, "none" if none
    \* ---- the row encoder of render (src/thunder.rs, src/aurora.rs, ...) ----
    rKind,        \* which effect's encoder runs
    rW,           \* self.width
    rH,           \* self.height (logical pixel rows)
    rBg,          \* crate::get_bg_color()
    rFb,          \* the frame's pixel colors, row-major, as (u8, u8, u8)
    rOut,         \* self.output_buf, as a sequence of tokens
    \* ---- GameOfLifeEffect (src/gameoflife.rs) ----
    golW,            \* self.width
    golH,            \* self.height
    cells,           \* self.cells, row-major
    next_cells,      \* self.next_cells
    num_states,      \* self.num_states
    survival_rules,  \* self.survival_rules
    birth_rules,     \* self.birth_rules
    generation,      \* generations computed so far
    golOp,           \* the last operation on the automaton
    \* ---- FireworksEffect (src/fireworks.rs) ----
    rockets,      \* self.rockets, in launch order
    particles,    \* self.particles, as a bag: particle -> number of equal particles
    time,         \* self.time, in time units of 1/180 s
    next_launch,  \* self.next_launch, in time units
    sparkRoll,    \* the outcome of the random draws at the spark emission sites
    fwOp,         \* the last operation on the fireworks effect
    exploded,     \* whether create_explosion has been called so far
    explosions,   \* the create_explosion calls of the last update, with what each pushed
    retainLog,    \* what the particle retain pass of the last update did to each particle
    drawn,        \* the particles the last render got past its lifetime skip
    secondary,    \* the particles the last update pushed after its retain pass
    \* ---- generate_branch (src/thunder.rs), generate_tendril (plasma.rs) ----
    genKind,      \* which generator runs
    callStack,    \* the active calls, innermost last
    segments,     \* the segments pushed so far, each with the depth that pushed it
    spawned,      \* the recursive calls made so far: parent and child arguments
    \* ---- two invocations of a generator on the same draws ----
    genArgs,      \* the arguments of both invocations: kind, grid size, start and target
    tape,         \* the random draws made so far, in order
    runs,         \* the two invocations: call stack, segment list, draws consumed
    turn,         \* the invocation that is running
    \* ---- LavaLampEffect (src/src/effects/lavalamp.rs) ----
    blobs,        \* self.blobs, coordinates and radius in tenths of a pixel
    field,        \* self.field, row-major, in thousandths
    lavaCells,    \* what field_to_color made of each cell in the last render
    lavaOp,       \* the last operation on the lava lamp
    \* ---- noise fields (src/src/effects/clouds.rs, star.rs) ----
    noise1,       \* the first noise field: its seed and permutation table
    noise2,       \* the second noise field
    answers,      \* the queries made so far, each with the value returned
    \* ---- effects on small terminals (src/thunder.rs, fireworks.rs, fire.rs) ----
    sKind,        \* the effect run on the terminal
    sWidth,       \* its width: the columns of the terminal
    sHeight,      \* its height: twice the rows of the terminal
    sBuild,       \* whether the build checks integer overflow
    sOp,          \* the last operation on the effect
    sOutcome,     \* "ok", or "panic" once an operation has panicked
    sDrawn,       \* the integers the last update drew
    \* ---- the loop of step_generation (src/gameoflife.rs) ----
    stepAt,       \* the cells step_generation has computed in the running call; -1 outside a call
    before,       \* the grid as it was when the running call began
    swaps,        \* exchanges of the two buffers made by the running call
    \* ---- LavaLampEffect::update, the blobs (src/src/effects/lavalamp.rs) ----
    lampH,        \* self.height
    lampBlobs,    \* self.blobs: y, vy, radius, temperature of each
    lampRoll,     \* the outcome of the draws of radius, start height and temperature
    spawnRoll,    \* the spawn draws to come: failing draws left before the next success, and the gap of the run
    lampBefore,   \* self.blobs.len() when the last update began
    lampPushed,   \* the blobs the last update pushed, as pushed
    lampExits,    \* the blobs the last update removed, with the edge they left by
    lampOp,       \* the last operation on the lamp
    \* ---- Fish::update (src/bioluminescence.rs) ----
    fishSelf,     \* the fish being updated: x, y, vx, vy, target_vx, target_vy, independence
    fishOthers,   \* others: the snapshot of the school, the fish itself included
    fishDraw,     \* the draws of this update: the dart draw and the roll of the dart velocity
    fishCurrent,  \* current_x, current_y
    fishTerms,    \* separation, alignment, cohesion as the last update combined them, and what it added for them
    fishOp,       \* the last operation on the fish
    \* ---- StarEffect (src/src/effects/star.rs) ----
    starTime,     \* self.time, in time units of 1/180 s
    last_click_time, \* self.last_click_time, in time units
    flares,       \* self.flares: lifetime and max_lifetime of each, in time units
    sinceClick,   \* simulated time since the last accepted click (since construction before the first), up to one second
    starClick,    \* the last mouse-down event: the flares it found, the simulated time since the last accepted click, the flares it pushed
    starSteps,    \* operations on the star so far
    starOp,       \* the last operation on the star
    \* ---- PlasmaEffect (src/src/effects/plasma.rs) ----
    tendrils,     \* self.tendrils: age, max_age, edge_segment, is_mouse_tendril and target of each
    mouse,        \* (self.mouse_x, self.mouse_y): empty for None
    mouse_inactive_time, \* self.mouse_inactive_time, in time units of 1/180 s
    sinceMove,    \* simulated time since the last mouse move; -1 before the first
    plasmaOp      \* the last operation on the plasma effect

schedVars == <<pc, accumulator, pending, effect, ops, iters, event, waiting, error>>
rasterVars == <<rKind, rW, rH, rBg, rFb, rOut>>
golVars == <<golW, golH, cells, next_cells, num_states, survival_rules, birth_rules,
             generation, golOp>>

fwVars == <<rockets, particles, time, next_launch, sparkRoll, fwOp, exploded, explosions,
            retainLog, drawn, secondary>>

genVars == <<genKind, callStack, segments, spawned>>

replayVars == <<genArgs, tape, runs, turn>>

lavaVars == <<blobs, field, lavaCells, lavaOp>>

noiseVars == <<noise1, noise2, answers>>

smallVars == <<sKind, sWidth, sHeight, sBuild, sOp, sOutcome, sDrawn>>

stepVars == <<stepAt, before, swaps>>

lampVars == <<lampH, lampBlobs, lampRoll, spawnRoll, lampBefore, lampPushed, lampExits, lampOp>>

fishVars == <<fishSelf, fishOthers, fishDraw, fishCurrent, fishTerms, fishOp>>

starVars == <<starTime, last_click_time, flares, sinceClick, starClick, starSteps, starOp>>

plasmaVars == <<tendrils, mouse, mouse_inactive_time, sinceMove, plasmaOp>>

vars == <<schedVars, rasterVars, golVars, fwVars, genVars, replayVars, lavaVars, noiseVars, smallVars, stepVars, lampVars, fishVars, starVars, plasmaVars>>

\* What the actions of one group leave unchanged.
nonSched == <<rasterVars, golVars, fwVars, genVars, replayVars, lavaVars, noiseVars, smallVars, stepVars, lampVars, fishVars, starVars, plasmaVars>>
nonRaster == <<schedVars, golVars, fwVars, genVars, replayVars, lavaVars, noiseVars, smallVars, stepVars, lampVars, fishVars, starVars, plasmaVars>>
nonGol == <<schedVars, rasterVars, fwVars, genVars, replayVars, lavaVars, noiseVars, smallVars, stepVars, lampVars, fishVars, starVars, plasmaVars>>
nonFw == <<schedVars, rasterVars, golVars, genVars, replayVars, lavaVars, noiseVars, smallVars, stepVars, lampVars, fishVars, starVars, plasmaVars>>
nonGen == <<schedVars, rasterVars, golVars, fwVars, replayVars, lavaVars, noiseVars, smallVars, stepVars, lampVars, fishVars, starVars, plasmaVars>>
nonReplay == <<schedVars, rasterVars, golVars, fwVars, genVars, lavaVars, noiseVars, smallVars, stepVars, lampVars, fishVars, starVars, plasmaVars>>
nonLava == <<schedVars, rasterVars, golVars, fwVars, genVars, replayVars, noiseVars, smallVars, stepVars, lampVars, fishVars, starVars, plasmaVars>>
nonNoise == <<schedVars, rasterVars, golVars, fwVars, genVars, replayVars, lavaVars, smallVars, stepVars, lampVars, fishVars, starVars, plasmaVars>>
nonSmall == <<schedVars, rasterVars, golVars, fwVars, genVars, replayVars, lavaVars, noiseVars, stepVars, lampVars, fishVars, starVars, plasmaVars>>
nonStep == <<schedVars, rasterVars, golVars, fwVars, genVars, replayVars, lavaVars, noiseVars, smallVars, lampVars, fishVars, starVars, plasmaVars>>
nonStepGol == <<schedVars, rasterVars, fwVars, genVars, replayVars, lavaVars, noiseVars, smallVars, lampVars, fishVars, starVars, plasmaVars>>
nonLamp == <<schedVars, rasterVars, golVars, fwVars, genVars, replayVars, lavaVars, noiseVars, smallVars, stepVars, fishVars, starVars, plasmaVars>>
nonFish == <<schedVars, rasterVars, golVars, fwVars, genVars, replayVars, lavaVars, noiseVars, smallVars, stepVars, lampVars, starVars, plasmaVars>>
nonStar == <<schedVars, rasterVars, golVars, fwVars, genVars, replayVars, lavaVars, noiseVars, smallVars, stepVars, lampVars, fishVars, plasmaVars>>
nonPlasma == <<schedVars, rasterVars, golVars, fwVars, genVars, replayVars, lavaVars, noiseVars, smallVars, stepVars, lampVars, fishVars, starVars>>

(***************************************************************************)
(* Bounds of the model.                                                     *)
(***************************************************************************)
MaxFrameTime == 11   \* longest measured frame time, in time units
MaxIters == 2        \* outer iterations of run_effect that are explored
MaxWidth == 2        \* widest frame that is encoded
MaxHeight == 4       \* tallest frame that is encoded, in logical pixel rows
MaxStates == 3       \* largest num_states explored
MaxTicks == 91       \* update calls on the fireworks effect that are explored
MaxSegments == 3     \* most segments along one branch (num_segments)
MaxDraws == 14       \* random draws one invocation of a generator can make
MaxBlobs == 2        \* most blobs in the lamp
MaxQueries == 2      \* noise queries in one run
MaxCols == 22        \* widest small terminal, in columns
MaxRows == 3         \* tallest small terminal, in rows
MaxGenerations == 2  \* generations computed in one run
MaxStarSteps == 6    \* operations on the star that are explored
MaxIdleTicks == 125  \* update calls without a mouse move that are explored

(***************************************************************************)
(* Idle values: a specification holds the groups it does not use at these.  *)
(***************************************************************************)
\* No event was read: event::poll returned false, or an error came first.
NoEvent == [type |-> "None"]

SchedIdle ==
    /\ pc = "off"
    /\ accumulator = 0
    /\ pending = <<>>
    /\ effect = <<>>
    /\ ops = <<>>
    /\ iters = 0
    /\ event = NoEvent /\ waiting = 0 /\ error = "none"

RasterIdle ==
    /\ rKind = "off"
    /\ rW = 0
    /\ rH = 0
    /\ rBg = <<0, 0, 0>>
    /\ rFb = <<>>
    /\ rOut = <<>>

GolIdle ==
    /\ golW = 0
    /\ golH = 0
    /\ cells = <<>>
    /\ next_cells = <<>>
    /\ num_states = 0
    /\ survival_rules = {}
    /\ birth_rules = {}
    /\ generation = 0
    /\ golOp = "off"

FwIdle ==
    /\ rockets = <<>> /\ particles = EmptyBag /\ time = 0 /\ next_launch = 0
    /\ sparkRoll = "low" /\ fwOp = "off" /\ exploded = FALSE /\ explosions = <<>>
    /\ retainLog = {} /\ drawn = {} /\ secondary = {}

GenIdle == genKind = "off" /\ callStack = <<>> /\ segments = {} /\ spawned = {}

ReplayIdle ==
    genArgs = <<>> /\ tape = <<>> /\ runs = <<>> /\ turn = 0

LavaIdle ==
    blobs = <<>> /\ field = <<>> /\ lavaCells = <<>> /\ lavaOp = "off"

NoiseIdle ==
    noise1 = <<>> /\ noise2 = <<>> /\ answers = <<>>

SmallIdle ==
    sKind = "none" /\ sWidth = 0 /\ sHeight = 0 /\ sBuild = "none" /\ sOp = "off" /\ sOutcome = "ok" /\ sDrawn = <<>>

StepIdle ==
    stepAt = -1 /\ before = <<>> /\ swaps = 0

LampIdle ==
    lampH = 0 /\ lampBlobs = <<>> /\ lampRoll = "low" /\ spawnRoll = [gap |-> 0, left |-> 0] /\ lampBefore = 0
    /\ lampPushed = <<>> /\ lampExits = <<>> /\ lampOp = "off"

FishIdle ==
    fishSelf = <<>> /\ fishOthers = {} /\ fishDraw = <<>> /\ fishCurrent = <<0, 0>> /\ fishTerms = <<>>
    /\ fishOp = "off"

StarIdle ==
    starTime = 0 /\ last_click_time = 0 /\ flares = <<>> /\ sinceClick = 0 /\ starClick = <<>>
    /\ starSteps = 0 /\ starOp = "off"

PlasmaIdle ==
    tendrils = <<>> /\ mouse = <<>> /\ mouse_inactive_time = 0 /\ sinceMove = -1 /\ plasmaOp = "off"

\* Every group but the named one is idle.
IdleExcept(group) ==
    /\ IF group = "sched" THEN TRUE ELSE SchedIdle
    /\ IF group = "raster" THEN TRUE ELSE RasterIdle
    /\ IF group \in {"gol", "step"} THEN TRUE ELSE GolIdle
    /\ IF group = "fw" THEN TRUE ELSE FwIdle
    /\ IF group = "gen" THEN TRUE ELSE GenIdle
    /\ IF group = "replay" THEN TRUE ELSE ReplayIdle
    /\ IF group = "lava" THEN TRUE ELSE LavaIdle
    /\ IF group = "noise" THEN TRUE ELSE NoiseIdle
    /\ IF group = "small" THEN TRUE ELSE SmallIdle
    /\ IF group = "step" THEN TRUE ELSE StepIdle
    /\ IF group = "lamp" THEN TRUE ELSE LampIdle
    /\ IF group = "fish" THEN TRUE ELSE FishIdle
    /\ IF group = "star" THEN TRUE ELSE StarIdle
    /\ IF group = "plasma" THEN TRUE ELSE PlasmaIdle

(***************************************************************************)
(* run_effect                                                               *)
(***************************************************************************)
\* const FIXED_DT: f32 = 1.0 / 60.0, in time units of 1/180 s.
FIXED_DT == 3

\* The terminal sizes (cols, rows) that terminal::size() and Event::Resize report.
TermSizes == {<<2, 1>>, <<3, 2>>}

\* The numbers of events that wait unread in the terminal's input queue.
QueueLengths == {0, 1, 2}

ExitKeys == {"q", "esc", "ctrl_c"}
OtherKeys == {"key"}
KeyEvents == [type : {"Key"}, code : ExitKeys \cup OtherKeys]
ResizeEvents == [type : {"Resize"}, size : TermSizes]
MouseEvents == [type : {"Mouse"}]
Events == KeyEvents \cup ResizeEvents \cup MouseEvents

\* E::new(cols, rows * 2): a fresh instance with no update applied, no event seen.
NewEffect(id, size) ==
    [id |-> id, width |-> size[1], height |-> size[2] * 2, updates |-> 0, handled |-> 0]

\* CapBacklog without the cap: the backlog grows with the frame time.
CapBacklog_NoCap(acc) == acc

\* accumulator += frame_time; if accumulator > FIXED_DT * 3.0 { accumulator = FIXED_DT * 3.0 }
CapBacklog(acc) == IF acc > FIXED_DT * 3 THEN FIXED_DT * 3 ELSE acc

IsExitKey(e) == e.type = "Key" /\ e.code \in ExitKeys

SchedInit ==
    /\ pc = "poll"
    /\ accumulator = 0
    /\ pending = <<>>
    /\ \E size \in TermSizes : effect = NewEffect(0, size)
    /\ ops = <<>>
    /\ iters = 0
    /\ event = NoEvent
    /\ waiting = 0
    /\ error = "none"
    /\ IdleExcept("sched")

Running == pc \notin {"exited", "failed"}

\* The terminal delivers a decoded input event (the external input collaborator).
Arrive ==
    /\ Running
    /\ Len(pending) + 1 \in QueueLengths
    /\ \E e \in Events : pending' = Append(pending, e)
    /\ UNCHANGED <<nonSched, pc, accumulator, effect, ops, iters, event, waiting, error>>

\* event::poll(1 ms)? returns Err: run_effect returns the error.
PollError ==
    /\ pc = "poll"
    /\ iters < MaxIters
    /\ pc' = "failed"
    /\ ops' = <<>>
    /\ event' = NoEvent
    /\ waiting' = Len(pending)
    /\ error' = "poll"
    /\ UNCHANGED <<nonSched, accumulator, pending, effect, iters>>

\* event::poll returns true and event::read()? returns Err: run_effect returns
\* the error.
ReadError ==
    /\ pc = "poll"
    /\ iters < MaxIters
    /\ pending # <<>>
    /\ pc' = "failed"
    /\ ops' = <<>>
    /\ event' = NoEvent
    /\ waiting' = Len(pending)
    /\ error' = "read"
    /\ UNCHANGED <<nonSched, accumulator, pending, effect, iters>>

\* event::poll(1 ms) returns false: no event is read in this iteration.
PollTimeout ==
    /\ pc = "poll"
    /\ iters < MaxIters
    /\ pending = <<>>
    /\ pc' = "measure"
    /\ ops' = <<>>
    /\ event' = NoEvent
    /\ waiting' = 0
    /\ UNCHANGED <<nonSched, accumulator, pending, effect, iters, error>>

\* The event read is 'q', Esc or Ctrl+C: break.
ReadExitKey ==
    /\ pc = "poll"
    /\ iters < MaxIters
    /\ pending # <<>>
    /\ IsExitKey(Head(pending))
    /\ pending' = Tail(pending)
    /\ pc' = "exited"
    /\ ops' = <<>>
    /\ event' = Head(pending)
    /\ waiting' = Len(pending) - 1
    /\ UNCHANGED <<nonSched, accumulator, effect, iters, error>>

\* The input step that passes every key event on before it looks for an exit key.
ReadForwarded_AnyKey ==
    /\ pc = "poll"
    /\ iters < MaxIters
    /\ pending # <<>>
    /\ Head(pending).type # "Resize"
    /\ pending' = Tail(pending)
    /\ effect' = [effect EXCEPT !.handled = @ + 1]
    /\ pc' = IF IsExitKey(Head(pending)) THEN "exited" ELSE "measure"
    /\ ops' = <<"handle_event">>
    /\ event' = Head(pending)
    /\ waiting' = Len(pending) - 1
    /\ UNCHANGED <<nonSched, accumulator, iters, error>>

\* Any other key event, and any event that is neither a key nor a resize (the `_` arm),
\* is passed to effect.handle_event.
ReadForwarded ==
    /\ pc = "poll"
    /\ iters < MaxIters
    /\ pending # <<>>
    /\ ~IsExitKey(Head(pending))
    /\ Head(pending).type # "Resize"
    /\ pending' = Tail(pending)
    /\ effect' = [effect EXCEPT !.handled = @ + 1]
    /\ pc' = "measure"
    /\ ops' = <<"handle_event">>
    /\ event' = Head(pending)
    /\ waiting' = Len(pending) - 1
    /\ UNCHANGED <<nonSched, accumulator, iters, error>>

\* The resize that keeps the instance and sets its size.
ReadResize_InPlace ==
    /\ pc = "poll"
    /\ iters < MaxIters
    /\ pending # <<>>
    /\ Head(pending).type = "Resize"
    /\ pending' = Tail(pending)
    /\ effect' = [effect EXCEPT !.width = Head(pending).size[1], !.height = Head(pending).size[2] * 2]
    /\ ops' = <<"new">>
    /\ event' = Head(pending)
    /\ waiting' = Len(pending) - 1
    /\ \E cleared \in BOOLEAN :
           /\ pc' = IF cleared THEN "measure" ELSE "failed"
           /\ error' = IF cleared THEN "none" ELSE "clear"
    /\ UNCHANGED <<nonSched, accumulator, iters>>

\* Event::Resize(cols, rows): effect = E::new(cols, rows * 2); execute!(Clear)? may fail.
ReadResize ==
    /\ pc = "poll"
    /\ iters < MaxIters
    /\ pending # <<>>
    /\ Head(pending).type = "Resize"
    /\ pending' = Tail(pending)
    /\ effect' = NewEffect(effect.id + 1, Head(pending).size)
    /\ ops' = <<"new">>
    /\ event' = Head(pending)
    /\ waiting' = Len(pending) - 1
    /\ \E cleared \in BOOLEAN :
           /\ pc' = IF cleared THEN "measure" ELSE "failed"
           /\ error' = IF cleared THEN "none" ELSE "clear"
    /\ UNCHANGED <<nonSched, accumulator, iters>>

\* let frame_time = now - last_frame; accumulator += frame_time; cap at 3 * FIXED_DT.
Measure ==
    /\ pc = "measure"
    /\ \E frame_time \in 0..MaxFrameTime :
           accumulator' = CapBacklog(accumulator + frame_time)
    /\ pc' = "integrate"
    /\ UNCHANGED <<nonSched, pending, effect, ops, iters, event, waiting, error>>

\* while accumulator >= FIXED_DT { effect.update(FIXED_DT); accumulator -= FIXED_DT; }
UpdateStep ==
    /\ pc = "integrate"
    /\ accumulator >= FIXED_DT
    /\ effect' = [effect EXCEPT !.updates = @ + 1]
    /\ accumulator' = accumulator - FIXED_DT
    /\ ops' = Append(ops, "update")
    /\ UNCHANGED <<nonSched, pc, pending, iters, event, waiting, error>>

\* The while loop ends: control reaches effect.render.
UpdatesDone ==
    /\ pc = "integrate"
    /\ ~(accumulator >= FIXED_DT)
    /\ pc' = "render"
    /\ UNCHANGED <<nonSched, accumulator, pending, effect, ops, iters, event, waiting, error>>

\* The `?` of render that keeps run_effect in the loop and writes the frame again.
AfterRender_Retry(written) == IF written THEN "poll" ELSE "render"

\* effect.render(&mut stdout)?: Ok goes on to the next iteration, Err returns from
\* run_effect.
AfterRender(written) == IF written THEN "poll" ELSE "failed"

\* Render that does not leave the render step: the frame is rendered again.
Render_Again ==
    /\ pc = "render"
    /\ ops' = Append(ops, "render")
    /\ pc' = "render"
    /\ UNCHANGED <<nonSched, accumulator, pending, effect, iters, event, waiting, error>>

\* effect.render(&mut stdout)?: one frame is encoded, written and flushed; an
\* error of the write or the flush leaves run_effect. The iteration ends, and
\* its event goes out of scope.
Render ==
    /\ pc = "render"
    /\ ops' = Append(ops, "render")
    /\ \E written \in BOOLEAN :
           /\ pc' = AfterRender(written)
           /\ error' = IF written THEN "none" ELSE "write"
    /\ iters' = iters + 1
    /\ event' = NoEvent
    /\ waiting' = 0
    /\ UNCHANGED <<nonSched, accumulator, pending, effect>>

SchedNext ==
    \/ Arrive
    \/ PollError
    \/ ReadError
    \/ PollTimeout
    \/ ReadExitKey
    \/ ReadForwarded
    \/ ReadResize
    \/ Measure
    \/ UpdateStep
    \/ UpdatesDone
    \/ Render

SchedSpec == SchedInit /\ [][SchedNext]_vars

(***************************************************************************)
(* Claims about run_effect                                                  *)
(***************************************************************************)
\* The update and render calls of the current outer iteration, in call order.
EffectCalls == SelectSeq(ops, LAMBDA c : c \in {"update", "render"})
NumUpdates == Len(SelectSeq(ops, LAMBDA c : c = "update"))
OnlyUpdates(s) == \A i \in 1..Len(s) : s[i] = "update"
UpdatesThenRender(s) ==
    /\ Len(s) >= 1
    /\ s[Len(s)] = "render"
    /\ OnlyUpdates(SubSeq(s, 1, Len(s) - 1))

C2_BacklogCapped ==
    /\ pc = "integrate" => accumulator <= 3 * FIXED_DT
    /\ NumUpdates <= 3
    /\ pc = "render" => (0 <= accumulator /\ accumulator < FIXED_DT)

\* Render is reached after three update steps with a remainder left in the backlog.
C2_Witness == pc = "render" /\ NumUpdates = 3 /\ accumulator = 0 /\ iters > 0

\* C15 as stated: an error of the write or flush of render ends run_effect at once,
\* after the single render of the iteration, with no further update or render; and
\* run_effect fails on no other operation of the loop.
C15_AsStated ==
    /\ error = "write" => (pc = "failed" /\ UpdatesThenRender(EffectCalls))
    /\ pc = "failed" => ~ENABLED (UpdateStep \/ Render)
    /\ pc = "failed" => error = "write"

\* C15, amended: an error of the write or flush of render ends run_effect at once,
\* after the single render of the iteration, with no further update or render; the
\* operations of the loop on which run_effect fails are event::poll, event::read,
\* the screen clear of a resize, and that write.
C15_WriteErrorEndsLoop ==
    /\ error = "write" => (pc = "failed" /\ UpdatesThenRender(EffectCalls))
    /\ pc = "failed" => ~ENABLED (UpdateStep \/ Render)
    /\ pc = "failed" <=> error \in {"poll", "read", "clear", "write"}

\* The write of a frame failed after two updates of the iteration.
C15_Witness == error = "write" /\ pc = "failed" /\ NumUpdates = 2

\* The calls of handle_event in the current outer iteration.
NumHandled == Len(SelectSeq(ops, LAMBDA c : c = "handle_event"))

\* C16: an iteration that reads 'q', Esc or Ctrl+C ends the loop with no update, no
\* render and no handle_event call; the loop is left on an exit key at the input
\* step only, so a render that has been reached is carried out; every other key
\* event read is passed to handle_event exactly once, before any update.
C16_ExitKeys ==
    /\ IsExitKey(event) => (pc = "exited" /\ ops = <<>>)
    /\ pc = "exited" => IsExitKey(event)
    /\ pc = "render" => ENABLED Render
    /\ (event.type = "Key" /\ ~IsExitKey(event)) =>
           (NumHandled = 1 /\ ops[1] = "handle_event")

\* An exit key waits unread while the frame of the iteration that passed another
\* key to the effect is rendered.
C16_Witness ==
    /\ pc = "render"
    /\ event.type = "Key" /\ ~IsExitKey(event)
    /\ pending # <<>> /\ IsExitKey(Head(pending))
    /\ NumUpdates >= 1

\* C17: in an iteration that read Resize(cols, rows) the effect is an instance
\* built by new(cols, rows * 2), of even height; the event was not passed to
\* handle_event, and the instance holds nothing but what the updates of this
\* iteration made: nothing of the instance before it.
C17_ResizeRebuilds ==
    event.type = "Resize" =>
        /\ ops[1] = "new"
        /\ NumHandled = 0
        /\ effect.width = event.size[1]
        /\ effect.height = event.size[2] * 2
        /\ effect.height % 2 = 0
        /\ effect.handled = 0
        /\ effect.updates = NumUpdates

\* The second iteration reads a resize to another size, after a first one that
\* rendered; the new instance has been updated once.
C17_Witness ==
    /\ event.type = "Resize"
    /\ iters > 0
    /\ effect.id > 0
    /\ effect.width = 3
    /\ pc = "render"
    /\ NumUpdates = 1

\* C18: every event that was pending when the outer iteration began has been read
\* before the first update of the iteration, and none of them is unread when render
\* is called.
C18_InputDrained == pc \in {"integrate", "render"} => waiting = 0




(***************************************************************************)
(* The half-block row encoder at the end of every render                    *)
(*                                                                          *)
(* The loop of thunder.rs keeps one memo and writes the foreground for      *)
(* every cell. The loop of lavalamp.rs (the same text is in gameoflife.rs)  *)
(* and the loop of aurora.rs (the same text is in fireworks.rs, clouds.rs,  *)
(* plasma.rs, star.rs and bioluminescence.rs) keep two memos; they differ   *)
(* in the bottom pixel of an odd trailing row. rFb holds the colors the     *)
(* effect's color mapping gave the pixels.                                  *)
(***************************************************************************)
Black == <<0, 0, 0>>
White == <<255, 255, 255>>
Colors == {Black, White}
EncoderKinds == {"thunder", "lavalamp", "aurora"}

\* let mut prev_top: (u8, u8, u8) = (255, 255, 255);
Sentinel == <<255, 255, 255>>

Home == [t |-> "home"]
BgEsc(c) == [t |-> "bg", c |-> c]
FgEsc(c) == [t |-> "fg", c |-> c]
Glyph == [t |-> "glyph"]
Reset == [t |-> "reset"]
CrLf == [t |-> "crlf"]

Pixel(fb, w, x, y) == fb[y * w + x + 1]

\* The color of the top pixel of the cell at column x of the character row at y.
TopColor(fb, w, x, y) == Pixel(fb, w, x, y)

\* The color of the bottom pixel: row y + 1 when it exists; else the color of field
\* 0.0 or glow 0.0 (the background) in lavalamp.rs and thunder.rs, and the top
\* pixel again (bot_idx = top_idx) in aurora.rs.
BotColor(kind, fb, w, h, bg, x, y) ==
    IF y + 1 < h THEN Pixel(fb, w, x, y + 1)
    ELSE IF kind = "aurora" THEN Pixel(fb, w, x, y)
    ELSE bg

\* The escapes and the glyph of one cell, and the memo after it. The memo is
\* [top, bot]; thunder.rs has the single memo prev_color, kept in top, compares the
\* top color with it and writes the foreground escape unconditionally.
EncodeCell(kind, top, bot, prev) ==
    IF kind = "thunder"
    THEN [out |-> (IF top # prev.top THEN <<BgEsc(top)>> ELSE <<>>)
                      \o <<FgEsc(bot)>> \o <<Glyph>>,
          prev |-> [top |-> top, bot |-> prev.bot]]
    ELSE [out |-> (IF top # prev.top THEN <<BgEsc(top)>> ELSE <<>>)
                      \o (IF bot # prev.bot THEN <<FgEsc(bot)>> ELSE <<>>)
                      \o <<Glyph>>,
          prev |-> [top |-> top, bot |-> bot]]

\* for x in 0..self.width { ... }, from column x on.
RECURSIVE EncodeRowFrom(_, _, _, _, _, _, _, _)
EncodeRowFrom(kind, fb, w, h, bg, y, x, prev) ==
    IF x >= w THEN <<>>
    ELSE LET cell == EncodeCell(kind, TopColor(fb, w, x, y),
                                BotColor(kind, fb, w, h, bg, x, y), prev)
         IN  cell.out \o EncodeRowFrom(kind, fb, w, h, bg, y, x + 1, cell.prev)

\* RowEnd that ends every row, the last one too, with CR+LF.
RowEnd_EveryRow(h, y) == <<CrLf>>

\* if y + 2 < self.height { output_buf.extend_from_slice(b"\r\n") }
RowEnd(h, y) == IF y + 2 < h THEN <<CrLf>> ELSE <<>>

\* for y in (0..self.height).step_by(2) { ... }, from row y on. The memo a row
\* starts with is the sentinel: it is set before the loop and again after every row.
RECURSIVE EncodeRowsFrom(_, _, _, _, _, _)
EncodeRowsFrom(kind, fb, w, h, bg, y) ==
    IF y >= h THEN <<>>
    ELSE EncodeRowFrom(kind, fb, w, h, bg, y, 0, [top |-> Sentinel, bot |-> Sentinel])
             \o <<Reset>> \o RowEnd(h, y)
             \o EncodeRowsFrom(kind, fb, w, h, bg, y + 2)

\* output_buf.clear(); output_buf.extend_from_slice(b"\x1b[H"); then the rows.
EncodeFrame(kind, fb, w, h, bg) == <<Home>> \o EncodeRowsFrom(kind, fb, w, h, bg, 0)

Framebuffers(w, h) == [1..(w * h) -> Colors]

\* An effect of some size holds a painted frame; nothing is encoded yet. The
\* background color matters to the encoder only for the bottom half of an odd
\* trailing row.
RasterInit ==
    /\ rKind \in EncoderKinds
    /\ rW \in 1..MaxWidth
    /\ rH \in 1..MaxHeight
    /\ rBg \in Colors
    /\ (rH % 2 = 0 \/ rKind = "aurora") => rBg = Black
    /\ rFb \in Framebuffers(rW, rH)
    /\ rOut = <<>>
    /\ IdleExcept("raster")

\* render: the frame in rFb is encoded into output_buf.
RenderFrame ==
    /\ rKind \in EncoderKinds
    /\ rOut = <<>>
    /\ rOut' = EncodeFrame(rKind, rFb, rW, rH, rBg)
    /\ UNCHANGED <<nonRaster, rKind, rW, rH, rBg, rFb>>

RasterNext == RenderFrame

RasterSpec == RasterInit /\ [][RasterNext]_vars

(***************************************************************************)
(* Claims about the row encoder                                             *)
(***************************************************************************)
\* The character row (1, 2, ...) the token at position i belongs to: one more than
\* the number of SGR resets before it.
RowOf(out, i) == Cardinality({j \in 1..(i - 1) : out[j].t = "reset"}) + 1

\* The column (0, 1, ...) of the cell the token at position i belongs to: the
\* number of glyphs before it in its row.
CellOf(out, i) ==
    Cardinality({j \in 1..(i - 1) : out[j].t = "glyph" /\ RowOf(out, j) = RowOf(out, i)})

NumRows(out) == Cardinality({i \in DOMAIN out : out[i].t = "reset"})
CountInRow(out, k, t) ==
    Cardinality({i \in DOMAIN out : out[i].t = t /\ RowOf(out, i) = k})
Uniform(fb) == \A i, j \in DOMAIN fb : fb[i] = fb[j]
Encoded == rOut # <<>>

\* C3: the encoded rows of a uniformly colored frame hold exactly one background
\* and one foreground escape each; and a cell after the first of its row has a
\* background (foreground) escape only if its top (bottom) color differs from that
\* of the cell before it.
C3_OneEscapePairPerUniformRow ==
    Encoded =>
        /\ Uniform(rFb) =>
               \A k \in 1..NumRows(rOut) :
                   CountInRow(rOut, k, "bg") = 1 /\ CountInRow(rOut, k, "fg") = 1
        /\ \A i \in DOMAIN rOut :
               LET x == CellOf(rOut, i)
                   y == 2 * (RowOf(rOut, i) - 1)
               IN  /\ (rOut[i].t = "bg" /\ x >= 1) =>
                          TopColor(rFb, rW, x, y) # TopColor(rFb, rW, x - 1, y)
                   /\ (rOut[i].t = "fg" /\ x >= 1) =>
                          BotColor(rKind, rFb, rW, rH, rBg, x, y)
                              # BotColor(rKind, rFb, rW, rH, rBg, x - 1, y)

\* C4: the first cell of every character row has both its background and its
\* foreground escape, whatever its colors: the memo a row starts with equals no
\* cell color.
C4_FirstCellEmitsBoth ==
    Encoded =>
        \A k \in 1..NumRows(rOut) :
            /\ \E i \in DOMAIN rOut :
                   rOut[i].t = "bg" /\ RowOf(rOut, i) = k /\ CellOf(rOut, i) = 0
            /\ \E i \in DOMAIN rOut :
                   rOut[i].t = "fg" /\ RowOf(rOut, i) = k /\ CellOf(rOut, i) = 0

TerminalDefault == <<-1, -1, -1>>

\* The cells a terminal shows for the tokens from position i on, each with the
\* background and the foreground color in force at its glyph.
RECURSIVE ShownFrom(_, _, _, _)
ShownFrom(out, i, bg, fg) ==
    IF i > Len(out) THEN <<>>
    ELSE IF out[i].t = "bg" THEN ShownFrom(out, i + 1, out[i].c, fg)
    ELSE IF out[i].t = "fg" THEN ShownFrom(out, i + 1, bg, out[i].c)
    ELSE IF out[i].t = "reset" THEN ShownFrom(out, i + 1, TerminalDefault, TerminalDefault)
    ELSE IF out[i].t = "glyph" THEN <<[bg |-> bg, fg |-> fg]>> \o ShownFrom(out, i + 1, bg, fg)
    ELSE ShownFrom(out, i + 1, bg, fg)

Shown(out) == ShownFrom(out, 1, TerminalDefault, TerminalDefault)

\* C19: the cell at column x of character row r has the color of pixel (x, 2r) as
\* its background and the color of pixel (x, 2r + 1) as its foreground; where row
\* 2r + 1 does not exist, the foreground is the color of pixel (x, 2r) again.
C19_CellColors ==
    Encoded =>
        \A n \in DOMAIN Shown(rOut) :
            LET x == (n - 1) % rW
                y == 2 * ((n - 1) \div rW)
            IN  /\ Shown(rOut)[n].bg = Pixel(rFb, rW, x, y)
                /\ Shown(rOut)[n].fg = IF y + 1 < rH THEN Pixel(rFb, rW, x, y + 1)
                                       ELSE Pixel(rFb, rW, x, y)


(***************************************************************************)
(* GameOfLifeEffect: the multi-state automaton                              *)
(***************************************************************************)
\* The terminal sizes (cols, rows) the automaton is constructed for: width = cols,
\* height = rows * 2. On the narrow ones a neighbor offset wraps onto a cell that
\* another offset reaches too, or onto the cell itself.
GolTermSizes == {<<1, 1>>, <<2, 1>>, <<3, 1>>, <<3, 2>>}

\* random_rules: the two draws, and the fallback when both come out empty.
RuleDraws ==
    {<<{}, {}>>, <<(0..8) \ {2, 3}, (0..8) \ {3}>>, <<{1, 3, 5, 7}, {0, 2, 4, 6, 8}>>}

random_rules(draw) ==
    IF draw[1] = {} /\ draw[2] = {}
    THEN [survival |-> {2, 3}, birth |-> {3}]
    ELSE [survival |-> draw[1], birth |-> draw[2]]

CellIndex(w, x, y) == y * w + x + 1

\* count_neighbors that also counts the cell itself.
count_neighbors_WithSelf(grid, w, h, n, x, y) ==
    Cardinality({d \in (-1..1) \X (-1..1) :
        grid[CellIndex(w, (x + d[1] + w) % w, (y + d[2] + h) % h)] = n - 1})

\* count_neighbors: the offsets (dx, dy) other than (0, 0) whose wrapped cell is in
\* the max state n - 1.
count_neighbors(grid, w, h, n, x, y) ==
    Cardinality({d \in ((-1..1) \X (-1..1)) \ {<<0, 0>>} :
        grid[CellIndex(w, (x + d[1] + w) % w, (y + d[2] + h) % h)] = n - 1})

\* The cell rule with a dying cell dropping straight to dead.
NextCell_DecayToDead(state, neighbors, n, birth, survival) ==
    IF state = 0 THEN (IF neighbors \in birth THEN n - 1 ELSE 0)
    ELSE IF state = n - 1 THEN (IF neighbors \in survival THEN n - 1 ELSE 0)
    ELSE 0

\* The value step_generation writes to next_cells[idx].
NextCell(state, neighbors, n, birth, survival) ==
    IF state = 0
    THEN (IF neighbors \in birth THEN n - 1 ELSE 0)
    ELSE IF state = n - 1
    THEN (IF neighbors \in survival THEN n - 1
          ELSE IF n > 2 THEN (n - 1) - 1 ELSE 0)
    ELSE (IF state > 0 THEN state - 1 ELSE 0)

\* The scratch buffer after the two loops of step_generation.
NextGrid(grid, w, h, n, birth, survival) ==
    [idx \in 1..(w * h) |->
        LET x == (idx - 1) % w
            y == (idx - 1) \div w
        IN  NextCell(grid[idx], count_neighbors(grid, w, h, n, x, y), n, birth, survival)]

\* GameOfLifeEffect::new(cols, rows * 2): random state count and rules; every cell
\* is dead or in the max state; the scratch buffer is all zero.
GolInit ==
    /\ \E size \in GolTermSizes : golW = size[1] /\ golH = size[2] * 2
    /\ num_states \in 2..MaxStates
    /\ cells \in [1..(golW * golH) -> {0, num_states - 1}]
    /\ next_cells = [idx \in 1..(golW * golH) |-> 0]
    /\ \E draw \in RuleDraws :
           /\ survival_rules = random_rules(draw).survival
           /\ birth_rules = random_rules(draw).birth
    /\ generation = 0
    /\ golOp = "new"
    /\ IdleExcept("gol")

\* step_generation: the scratch buffer is computed from cells, then swapped in.
StepGeneration ==
    /\ golOp \in {"new", "step"}
    /\ generation < MaxGenerations
    /\ cells' = NextGrid(cells, golW, golH, num_states, birth_rules, survival_rules)
    /\ next_cells' = cells
    /\ generation' = generation + 1
    /\ golOp' = "step"
    /\ UNCHANGED <<nonGol, golW, golH, num_states, survival_rules, birth_rules>>

GolNext == StepGeneration

GolSpec == GolInit /\ [][GolNext]_vars

(***************************************************************************)
(* Claims about the automaton                                               *)
(***************************************************************************)
\* After step_generation and the swap, next_cells is the grid before the step.
Stepped == golOp = "step"
CellAt(grid, x, y) == grid[(y % golH) * golW + (x % golW) + 1]

\* The number of the 8 toroidal Moore neighbors of (x, y) in state s.
MooreCount(grid, x, y, s) ==
    LET at(dx, dy) == IF CellAt(grid, x + dx, y + dy) = s THEN 1 ELSE 0
    IN  at(-1, -1) + at(0, -1) + at(1, -1) + at(-1, 0) + at(1, 0)
            + at(-1, 1) + at(0, 1) + at(1, 1)

ConwayAlive(grid, x, y) ==
    LET n == MooreCount(grid, x, y, 1)
    IN  n = 3 \/ (CellAt(grid, x, y) = 1 /\ n = 2)

ConwayRules == num_states = 2 /\ birth_rules = {3} /\ survival_rules = {2, 3}

\* C7: with N = 2, birth = {3} and survival = {2,3}, one generation is one step of
\* Conway's Game of Life on the torus.
C7_ConwayParity ==
    (Stepped /\ ConwayRules) =>
        \A x \in 0..(golW - 1), y \in 0..(golH - 1) :
            CellAt(cells, x, y) = (IF ConwayAlive(next_cells, x, y) THEN 1 ELSE 0)

\* A Conway generation in which a dead cell was born and a live cell survived.
C7_Witness ==
    /\ Stepped /\ ConwayRules
    /\ \E i \in DOMAIN cells : next_cells[i] = 0 /\ cells[i] = 1
    /\ \E i \in DOMAIN cells : next_cells[i] = 1 /\ cells[i] = 1

(***************************************************************************)
(* FireworksEffect (src/fireworks.rs): rockets, explosions and the particle *)
(* lifecycle. Times are in the scheduler's units (1/180 s), so one update   *)
(* is FIXED_DT. Positions, velocities and colors do not influence which     *)
(* particles exist, and are left out: a rocket is its remaining flight, a   *)
(* particle its lifetime fields, and equal particles are counted in a bag.  *)
(* Lifetime arithmetic is exact; f32 rounding is not modelled.              *)
(***************************************************************************)
Second == FIXED_DT * 60
Hundredths(n) == (n * Second) \div 100

ExplosionTypes == {"Sphere", "Ring", "Willow", "Crossette", "Strobe", "MultiBurst",
                   "ColorShift", "Spiral", "Heart", "Star", "Chrysanthemum",
                   "DoubleExplosion", "Willowtail"}

\* A random draw is explored at the two ends of its range.
Rolls == {"low", "high"}

\* lo + fastrand::usize(0..span), and lo + fastrand::f32() * span in time units.
Draw(roll, lo, span) == IF roll = "low" THEN lo ELSE lo + span - 1

\* Flights of a rocket: the number of retain passes until rocket.y <= target_y or
\* rocket.vy > 0, as the launch draws (speed, angle, target_y) decide it.
FlightTicks == {2, 3}

\* 0.3 + fastrand::f32() * 0.8 seconds between launches.
LaunchGaps == {Hundredths(30) + Hundredths(68), Hundredths(30) + Hundredths(75)}

Rocket(type, burst_count, flight) ==
    [explosion_type |-> type, burst_count |-> burst_count, flight |-> flight]

\* The rockets a launch can push: a random type, 2 or 3 bursts for MultiBurst.
NewRockets ==
    {Rocket(type, bc, f) : type \in ExplosionTypes \ {"MultiBurst"}, bc \in {1},
                           f \in FlightTicks}
        \cup {Rocket("MultiBurst", 2 + d, f) : d \in 0..1, f \in FlightTicks}

\* A particle; crossette_time is {} for None and {t} for Some(t).
Particle(life, max_life, crossette_time, emits_sparks, spark_timer) ==
    [life |-> life, max_life |-> max_life, crossette_time |-> crossette_time,
     emits_sparks |-> emits_sparks, spark_timer |-> spark_timer]

Copies(p, n) == IF n > 0 THEN [x \in {p} |-> n] ELSE EmptyBag

\* The particles one loop of a create_*_explosion pushes: count particles of the
\* given lifetime; each draws its max_life in [base, base + span), here half of
\* them at each end. A crossette particle draws its fuse the same way.
Burst(count, life, base, span, crossette, emits) ==
    LET high == count \div 2
        fuse(roll) == IF crossette THEN {Draw(roll, Hundredths(20), Hundredths(30))} ELSE {}
    IN  Copies(Particle(life, Draw("low", base, span), fuse("low"), emits, 0), count - high)
            (+) Copies(Particle(life, Draw("high", base, span), fuse("high"), emits, 0), high)

\* create_multiburst_explosion, the later bursts: burst k is delayed by k * 0.15 s.
RECURSIVE DelayedBursts(_, _, _)
DelayedBursts(burst, burst_count, rolls) ==
    IF burst >= burst_count THEN EmptyBag
    ELSE LET delay == burst * Hundredths(15)
         IN  Copies(Particle(0 - delay, Second + delay, {}, FALSE, 0),
                    Draw(rolls[burst + 1], 40, 30))
                 (+) DelayedBursts(burst + 1, burst_count, rolls)

\* create_multiburst_explosion: a first burst of 30..49 particles with max_life
\* 0.6, then the delayed bursts 1..burst_count-1.
create_multiburst_explosion_NoDelay(rocket, rolls) ==
    Copies(Particle(Second, Hundredths(60), {}, FALSE, 0), Draw(rolls[1], 30, 20))
        (+) Copies(Particle(Second, Second + Hundredths(15), {}, FALSE, 0),
                   Draw(rolls[2], 40, 30))

create_multiburst_explosion(rocket, rolls) ==
    Copies(Particle(Second, Hundredths(60), {}, FALSE, 0), Draw(rolls[1], 30, 20))
        (+) DelayedBursts(1, rocket.burst_count, rolls)

\* create_double_explosion: an inner and an outer burst.
create_double_explosion(rocket, rolls) ==
    Burst(Draw(rolls[1], 40, 20), Second, Hundredths(80), Hundredths(30), FALSE, FALSE)
        (+) Burst(Draw(rolls[2], 60, 30), Second, Hundredths(130), Hundredths(50),
                  FALSE, FALSE)

\* create_explosion: the particles pushed for a rocket, by explosion type; rolls
\* are the outcomes of the particle-count draws.
create_explosion(rocket, rolls) ==
    LET type == rocket.explosion_type
        one(lo, span, base, mspan, crossette, emits) ==
            Burst(Draw(rolls[1], lo, span), Second, base, mspan, crossette, emits)
    IN  CASE type = "Sphere" ->
                 one(80, 40, Second, Hundredths(50), FALSE, FALSE)
          [] type = "Ring" ->
                 one(60, 30, Hundredths(120), Hundredths(30), FALSE, FALSE)
          [] type = "Willow" ->
                 one(100, 50, Hundredths(150), Hundredths(80), FALSE, FALSE)
          [] type = "Crossette" ->
                 one(40, 20, Second, Hundredths(50), TRUE, FALSE)
          [] type = "Strobe" ->
                 one(80, 40, Second, Hundredths(50), FALSE, FALSE)
          [] type = "MultiBurst" -> create_multiburst_explosion(rocket, rolls)
          [] type = "ColorShift" ->
                 one(80, 40, Hundredths(120), Hundredths(50), FALSE, FALSE)
          [] type = "Spiral" ->
                 one(60, 1, Second, Hundredths(50), FALSE, FALSE)
          [] type = "Heart" ->
                 one(80, 1, Hundredths(130), Hundredths(40), FALSE, FALSE)
          [] type = "Star" ->
                 one(5 * 15, 1, Hundredths(120), Hundredths(30), FALSE, FALSE)
          [] type = "Chrysanthemum" ->
                 one(120, 60, Hundredths(180), Hundredths(70), FALSE, FALSE)
          [] type = "DoubleExplosion" -> create_double_explosion(rocket, rolls)
          [] type = "Willowtail" ->
                 one(40, 20, Hundredths(200), Hundredths(100), FALSE, TRUE)

\* The sparks pushed after the retain pass, per particle that asked for them: a
\* crossette particle that went off gives 15..24 sparks with max_life 0.4..0.6 s,
\* a willowtail particle whose spark timer ran out 2..4 with max_life 0.3..0.6 s.
CrossetteSparks(roll) ==
    Burst(Draw(roll, 15, 10), Second, Hundredths(40), Hundredths(20), FALSE, FALSE)

WillowtailSparks(roll) ==
    Burst(Draw(roll, 2, 3), Second, Hundredths(30), Hundredths(30), FALSE, FALSE)

\* The next spark_timer, 0.03 + fastrand::f32() * 0.03 seconds.
SparkTimer(roll) == Draw(roll, Hundredths(3), Hundredths(6) + 1 - Hundredths(3))

\* The closure of self.particles.retain_mut on one particle: the particle after
\* it, whether it is kept, and whether it asked for willowtail sparks (emit) or
\* went off as a crossette (burst).
StepParticle_KeepSpent(p, dt, roll) ==
    IF p.life < 0
    THEN [after |-> [p EXCEPT !.life = @ + dt], kept |-> TRUE, emit |-> FALSE,
          burst |-> FALSE]
    ELSE LET life == p.life - dt
             fuse == {t - dt : t \in p.crossette_time}
             burst == \E t \in fuse : t <= 0
         IN  [after |-> Particle(life, p.max_life, fuse, p.emits_sparks, p.spark_timer),
              kept |-> ~burst /\ life >= 0, emit |-> FALSE, burst |-> burst]

StepParticle(p, dt, roll) ==
    IF p.life < 0
    THEN [after |-> [p EXCEPT !.life = @ + dt], kept |-> TRUE, emit |-> FALSE,
          burst |-> FALSE]
    ELSE LET life == p.life - dt
             timer == IF p.emits_sparks THEN p.spark_timer - dt ELSE p.spark_timer
             emit == p.emits_sparks /\ timer <= 0
             fuse == {t - dt : t \in p.crossette_time}
             burst == \E t \in fuse : t <= 0
         IN  [after |-> Particle(life, p.max_life, fuse, p.emits_sparks,
                                 IF emit THEN SparkTimer(roll) ELSE timer),
              kept |-> ~burst /\ life > 0, emit |-> emit, burst |-> burst]

\* The particle collection after the retain pass and the pushes that follow it.
\* A contribution is n equal particles from one source.
RECURSIVE Total(_)
Total(C) == IF C = {} THEN 0
            ELSE LET c == CHOOSE c \in C : TRUE IN c.n + Total(C \ {c})

Collect(C) ==
    LET keys == {c.particle : c \in {c \in C : c.n > 0}}
    IN  [k \in keys |-> Total({c \in C : c.particle = k})]

Pushed(src, tag, bag, times) ==
    {[src |-> src, tag |-> tag, particle |-> q, n |-> bag[q] * times] : q \in BagToSet(bag)}

\* What the retain pass keeps, and what the two loops after it push: the sparks
\* of the crossettes that went off and of the willowtail particles that emitted.
KeptByPass(P, dt, roll) ==
    UNION {LET s == StepParticle(p, dt, roll)
           IN  IF s.kept
               THEN {[src |-> p, tag |-> "kept", particle |-> s.after, n |-> P[p]]}
               ELSE {}
           : p \in BagToSet(P)}

Secondary(P, dt, roll) ==
    UNION {LET s == StepParticle(p, dt, roll)
           IN  (IF s.burst THEN Pushed(p, "crossette", CrossetteSparks(roll), P[p])
                ELSE {})
                   \cup (IF s.emit THEN Pushed(p, "spark", WillowtailSparks(roll), P[p])
                         ELSE {})
           : p \in BagToSet(P)}

Retained_PushedInPass(P, dt, roll) ==
    Collect(KeptByPass(P, dt, roll)
                \cup {[c EXCEPT !.particle = StepParticle(c.particle, dt, roll).after] :
                          c \in Secondary(P, dt, roll)})

Retained(P, dt, roll) ==
    Collect(KeptByPass(P, dt, roll) \cup Secondary(P, dt, roll))

\* self.rockets.retain_mut: every rocket flies one step; those that reach their
\* target height or start to fall explode and are removed.
Flown(rs) == [i \in DOMAIN rs |-> [rs[i] EXCEPT !.flight = @ - 1]]
Exploding(rs) == SelectSeq(Flown(rs), LAMBDA r : r.flight <= 0)
Flying(rs) == SelectSeq(Flown(rs), LAMBDA r : r.flight > 0)

RECURSIVE AllPushed(_)
AllPushed(calls) ==
    IF calls = <<>> THEN EmptyBag ELSE Head(calls).pushed (+) AllPushed(Tail(calls))

\* FireworksEffect::new
FwInit ==
    /\ rockets = <<>> /\ particles = EmptyBag
    /\ time = 0 /\ next_launch = Second \div 2
    /\ sparkRoll \in Rolls
    /\ fwOp = "new" /\ exploded = FALSE /\ explosions = <<>>
    /\ retainLog = {} /\ drawn = {} /\ secondary = {}
    /\ IdleExcept("fw")

\* FireworksEffect::update(FIXED_DT): advance the clock, launch a rocket when one
\* is due, fly the rockets, explode those that are done, run the particle retain
\* pass over all particles (those just pushed too), then push the sparks.
FwUpdate ==
    /\ fwOp # "off"
    /\ time < MaxTicks * FIXED_DT
    /\ LET dt == FIXED_DT
           t1 == IF time + dt > 10000 * Second THEN time + dt - 10000 * Second
                 ELSE time + dt
           n1 == IF time + dt > 10000 * Second THEN next_launch - 10000 * Second
                 ELSE next_launch
           launches == IF t1 >= n1
                       THEN {[rs |-> Append(rockets, r), next |-> t1 + gap] :
                                 r \in NewRockets, gap \in LaunchGaps}
                       ELSE {[rs |-> rockets, next |-> n1]}
       IN  \E l \in launches :
           \E rolls \in (IF Exploding(l.rs) = <<>> THEN {[i \in 1..3 |-> "low"]}
                         ELSE [1..3 -> Rolls]) :
               LET done == Exploding(l.rs)
                   calls == [i \in DOMAIN done |->
                                [rocket |-> done[i],
                                 pushed |-> create_explosion(done[i], rolls)]]
                   P == particles (+) AllPushed(calls)
               IN  /\ time' = t1
                   /\ next_launch' = l.next
                   /\ rockets' = Flying(l.rs)
                   /\ explosions' = calls
                   /\ exploded' = (exploded \/ calls # <<>>)
                   /\ retainLog' = {[before |-> p, after |-> StepParticle(p, dt, sparkRoll).after,
                                     kept |-> StepParticle(p, dt, sparkRoll).kept] :
                                        p \in BagToSet(P)}
                   /\ particles' = Retained(P, dt, sparkRoll)
                   /\ secondary' = Secondary(P, dt, sparkRoll)
    /\ fwOp' = "update"
    /\ drawn' = {}
    /\ UNCHANGED <<sparkRoll, nonFw>>

\* FireworksEffect::render, the two particle passes: a particle with negative
\* lifetime is skipped; the others are drawn as sparks (max_life < 0.7 s) or as
\* shells.
FwRender ==
    /\ fwOp = "update"
    /\ drawn' = {[particle |-> p,
                  pass |-> IF p.max_life >= Hundredths(70) THEN "shells" ELSE "sparks"] :
                     p \in {q \in BagToSet(particles) : ~(q.life < 0)}}
    /\ fwOp' = "render"
    /\ UNCHANGED <<rockets, particles, time, next_launch, sparkRoll, exploded, explosions,
                   retainLog, secondary, nonFw>>

FwNext == FwUpdate \/ FwRender

FwSpec == FwInit /\ [][FwNext]_vars

(***************************************************************************)
(* Claims about the fireworks particle lifecycle.                           *)
(***************************************************************************)
Activated(e) == e.before.life >= 0
Delayed(e) == e.before.life < 0

\* C8 as the specification states it: an activated particle loses exactly dt in a
\* tick, no particle with lifetime <= 0 is left in the collection at the end of a
\* tick, and render draws no particle with lifetime <= 0.
C8_AsStated ==
    /\ \A e \in retainLog : Activated(e) => e.after.life = e.before.life - FIXED_DT
    /\ \A p \in BagToSet(particles) : p.life > 0
    /\ \A d \in drawn : d.particle.life > 0

\* C8, amended: an activated particle loses exactly dt in a tick and is not kept
\* with lifetime <= 0; a particle whose lifetime is negative when the retain pass
\* reaches it (a delayed multi-burst particle) gains dt and is kept; the particles
\* left with lifetime <= 0 at the end of a tick are exactly such delayed ones; and
\* render draws no particle with lifetime < 0.
C8_ParticleLifecycle ==
    /\ \A e \in retainLog :
           /\ Activated(e) => /\ e.after.life = e.before.life - FIXED_DT
                              /\ e.kept => e.after.life > 0
           /\ Delayed(e) => e.after.life = e.before.life + FIXED_DT /\ e.kept
    /\ \A p \in BagToSet(particles) :
           p.life <= 0 => \E e \in retainLog : Delayed(e) /\ e.kept /\ e.after = p
    /\ \A d \in drawn : d.particle.life >= 0

\* A rendered tick in which a particle ran out of lifetime and was removed, a
\* delayed particle was kept with negative lifetime, and render drew a particle.
C8_Witness ==
    /\ fwOp = "render" /\ drawn # {}
    /\ \E e \in retainLog : Activated(e) /\ e.after.life <= 0 /\ ~e.kept
    /\ \E e \in retainLog : Delayed(e) /\ e.kept /\ e.after.life < 0
    /\ \E p \in BagToSet(particles) : p.life < 0

\* The particle counts and max_life bounds (in hundredths of a second, upper end
\* excluded unless it equals the lower end) of the explosion types.
CountRange(rocket) ==
    LET type == rocket.explosion_type
        later == rocket.burst_count - 1
    IN  CASE type \in {"Sphere", "Strobe", "ColorShift"} -> 80..119
          [] type = "Ring" -> 60..89
          [] type = "Willow" -> 100..149
          [] type \in {"Crossette", "Willowtail"} -> 40..59
          [] type = "MultiBurst" -> (30 + 40 * later)..(49 + 69 * later)
          [] type = "Spiral" -> {60}
          [] type = "Heart" -> {80}
          [] type = "Star" -> {75}
          [] type = "Chrysanthemum" -> 120..179
          [] type = "DoubleExplosion" -> (40 + 60)..(59 + 89)

MaxLifeBounds(type) ==
    CASE type \in {"Sphere", "Crossette", "Strobe", "Spiral"} -> <<100, 150>>
      [] type \in {"Ring", "Star"} -> <<120, 150>>
      [] type = "Willow" -> <<150, 230>>
      [] type = "MultiBurst" -> <<60, 60>>
      [] type = "ColorShift" -> <<120, 170>>
      [] type = "Heart" -> <<130, 170>>
      [] type = "Chrysanthemum" -> <<180, 250>>
      [] type = "DoubleExplosion" -> <<80, 180>>
      [] type = "Willowtail" -> <<200, 300>>

InBounds(max_life, b) ==
    \/ max_life * 100 = b[1] * Second
    \/ b[1] * Second <= max_life * 100 /\ max_life * 100 < b[2] * Second

Calls == {explosions[i] : i \in DOMAIN explosions}

\* C9 as the specification states it: no particles before the first explosion;
\* an explosion pushes a number of particles in its type's range, each with
\* lifetime exactly 1.0 s and max_life within its type's bounds.
C9_AsStated ==
    /\ ~exploded => BagToSet(particles) = {}
    /\ \A c \in Calls :
           /\ BagCardinality(c.pushed) \in CountRange(c.rocket)
           /\ \A p \in BagToSet(c.pushed) :
                  p.life = Second /\ InBounds(p.max_life, MaxLifeBounds(c.rocket.explosion_type))

\* C9, amended: as stated, except that the particles of the later bursts
\* k = 1..burst_count-1 of a MultiBurst rocket have lifetime -0.15 k seconds and
\* max_life 1.0 + 0.15 k seconds.
C9_ExplosionParticles ==
    /\ ~exploded => BagToSet(particles) = {}
    /\ \A c \in Calls :
           /\ BagCardinality(c.pushed) \in CountRange(c.rocket)
           /\ \A p \in BagToSet(c.pushed) :
                  \/ p.life = Second
                         /\ InBounds(p.max_life, MaxLifeBounds(c.rocket.explosion_type))
                  \/ /\ c.rocket.explosion_type = "MultiBurst"
                     /\ \E k \in 1..(c.rocket.burst_count - 1) :
                            /\ p.life * 100 = 0 - 15 * k * Second
                            /\ p.max_life * 100 = (100 + 15 * k) * Second

\* A MultiBurst rocket with three bursts has just exploded: its first burst has
\* lifetime 1.0 s, its third is delayed by 0.3 s.
C9_Witness ==
    /\ fwOp = "update" /\ exploded
    /\ \E c \in Calls :
           /\ c.rocket.explosion_type = "MultiBurst" /\ c.rocket.burst_count = 3
           /\ \E p \in BagToSet(c.pushed) : p.life = Second
           /\ \E p \in BagToSet(c.pushed) : p.life * 100 = 0 - 30 * Second

\* C21: the particles created by secondary events of a tick (crossette sparks,
\* willowtail sparks) are appended after the retain pass: each is in the
\* collection at the end of the tick with lifetime exactly 1.0 s, and the
\* particles with lifetime 1.0 s at the end of a tick are exactly these, since
\* whatever the retain pass reached was aged or counted up.
C21_SecondaryAfterPass ==
    fwOp = "update" =>
        /\ \A c \in secondary :
               /\ c.particle.life = Second
               /\ c.particle \in BagToSet(particles)
        /\ \A q \in BagToSet(particles) :
               q.life = Second => particles[q] = Total({c \in secondary : c.particle = q})
        /\ \A e \in retainLog : e.kept => e.after.life < Second

\* A tick in which a crossette went off and its sparks were pushed.
C21_Witness ==
    /\ fwOp = "update"
    /\ \E c \in secondary : c.tag = "crossette" /\ particles[c.particle] >= 15

\* A delayed particle whose lifetime has counted up to zero or more and that the
\* retain pass now integrates for the first time.
JustStarted(e) ==
    e.before.max_life > Second /\ e.before.life >= 0 /\ e.before.life < FIXED_DT

\* C22: a delayed multi-burst particle gains dt per tick, otherwise unchanged
\* and kept, while its lifetime is negative; once its lifetime has reached zero
\* or more it is integrated and kept for more than one further tick.
C22_DelayedBurstStays ==
    \A e \in retainLog :
        /\ Delayed(e) => e.kept /\ e.after = [e.before EXCEPT !.life = @ + FIXED_DT]
        /\ JustStarted(e) => e.kept /\ e.after.life > FIXED_DT

(***************************************************************************)
(* The recursive branching generators: LightningBolt::generate_branch       *)
(* (src/thunder.rs) and Tendril::generate_tendril (plasma.rs). The recursion *)
(* is run on an explicit call stack. Coordinates are left out: what the     *)
(* geometry decides (a point in or out of bounds, the distance to the       *)
(* target, hence num_segments) and what fastrand decides (whether to        *)
(* branch) are nondeterministic choices. Intensities are in units of 1/10000.*)
(***************************************************************************)
GeneratorKinds == {"thunder", "plasma"}

FullIntensity == 10000
Tenths(n) == (n * FullIntensity) \div 10

\* The early return at the top of the generator.
Refused(kind, depth, intensity) ==
    IF kind = "thunder" THEN depth > 4 \/ intensity < Tenths(2)
    ELSE depth > 2 \/ intensity < Tenths(3)

\* num_segments = (dist / 6.0).max(2.0) in thunder, .max(3.0) in plasma.
MinSegments(kind) == IF kind = "thunder" THEN 2 ELSE 3

\* The part of the branching condition that is not a random draw, in iteration i
\* of num_segments, where t = (i + 1) / num_segments.
SpawnAllowed_AnyDepth(kind, depth, i, num_segments) == TRUE

SpawnAllowed(kind, depth, i, num_segments) ==
    IF kind = "thunder" THEN depth < 3
    ELSE /\ depth < 2
         /\ (i + 1) * 10 > 3 * num_segments
         /\ (i + 1) * 10 < 7 * num_segments

\* A call that has not yet run its first statement; inside tells whether its
\* start point is within the screen.
Call(depth, intensity, inside) ==
    [generation |-> depth, intensity |-> intensity, inside |-> inside,
     pc |-> "entry", i |-> 0, num_segments |-> 0]

Segment(call) == [generation |-> call.generation, intensity |-> call.intensity]

Top == callStack[Len(callStack)]
Caller == SubSeq(callStack, 1, Len(callStack) - 1)

\* LightningBolt::new / Tendril::new: the call at depth 0 with intensity 1.0.
GenInit ==
    /\ genKind \in GeneratorKinds
    /\ \E inside \in BOOLEAN : callStack = <<Call(0, FullIntensity, inside)>>
    /\ segments = {} /\ spawned = {}
    /\ IdleExcept("gen")

\* The generator up to its loop: the early returns, and the single final segment
\* when the target is nearer than 5.
GenEnter ==
    /\ callStack # <<>> /\ Top.pc = "entry"
    /\ \E near \in BOOLEAN, targetInside \in BOOLEAN,
          n \in MinSegments(genKind)..MaxSegments :
           IF Refused(genKind, Top.generation, Top.intensity) \/ ~Top.inside
           THEN callStack' = Caller /\ segments' = segments
           ELSE IF near
           THEN /\ callStack' = Caller
                /\ segments' = IF targetInside THEN segments \cup {Segment(Top)}
                               ELSE segments
           ELSE /\ callStack' = Append(Caller, [Top EXCEPT !.pc = "loop",
                                                           !.num_segments = n])
                /\ segments' = segments
    /\ UNCHANGED <<genKind, spawned, nonGen>>

\* The loop "for i in 0..num_segments" going round without counting.
Iterated_SameIndex(call) == call

\* The loop "for i in 0..num_segments" moving on to its next iteration.
Iterated(call) == [call EXCEPT !.i = @ + 1]

\* One iteration of the loop over the segments of a branch. A next point out of
\* bounds ends the branch (plasma first pushes a segment to the clamped point);
\* otherwise the segment is pushed and, on a lucky draw where branching is
\* allowed, the generator calls itself at intensity * 0.7 and generation + 1.
GenStep ==
    /\ callStack # <<>> /\ Top.pc = "loop" /\ Top.i < Top.num_segments
    /\ \E nextInside \in BOOLEAN, lucky \in BOOLEAN :
           IF ~nextInside
           THEN /\ callStack' = Caller
                /\ segments' = IF genKind = "plasma" THEN segments \cup {Segment(Top)}
                               ELSE segments
                /\ spawned' = spawned
           ELSE /\ segments' = segments \cup {Segment(Top)}
                /\ LET resumed == Append(Caller, Iterated(Top))
                       child == Call(Top.generation + 1, (Top.intensity * 7) \div 10, TRUE)
                   IN  IF lucky /\ SpawnAllowed(genKind, Top.generation, Top.i,
                                                Top.num_segments)
                       THEN /\ callStack' = Append(resumed, child)
                            /\ spawned' = spawned \cup
                                   {[parent |-> Segment(Top), child |-> Segment(child)]}
                       ELSE /\ callStack' = resumed
                            /\ spawned' = spawned
    /\ UNCHANGED <<genKind, nonGen>>

\* The loop has run num_segments times: the call returns.
GenReturn ==
    /\ callStack # <<>> /\ Top.pc = "loop" /\ Top.i >= Top.num_segments
    /\ callStack' = Caller
    /\ UNCHANGED <<genKind, segments, spawned, nonGen>>

GenNext == GenEnter \/ GenStep \/ GenReturn

GenSpec == GenInit /\ [][GenNext]_vars

\* The generator is straight-line sequential code: a call that can take its next
\* step takes it.
GenFairSpec == GenSpec /\ WF_vars(GenNext)

(***************************************************************************)
(* Claims about the branching generators.                                   *)
(***************************************************************************)
\* C10: no segment is produced at a depth above the maximum (4 in thunder, 2 in
\* plasma); a child is spawned only from a depth strictly below the maximum and
\* at 0.7 times its parent's intensity; no segment has an intensity below the
\* floor (0.2 in thunder, 0.3 in plasma).
C10_DepthAndIntensity ==
    LET maxDepth == IF genKind = "thunder" THEN 4 ELSE 2
        floor == IF genKind = "thunder" THEN 2 ELSE 3
    IN  genKind # "off" =>
            /\ \A s \in segments :
                   s.generation <= maxDepth /\ s.intensity * 10 >= floor * FullIntensity
            /\ \A c \in spawned :
                   /\ c.parent.generation < maxDepth
                   /\ c.child.generation = c.parent.generation + 1
                   /\ c.child.intensity * 10 = c.parent.intensity * 7

\* A thunder bolt whose deepest branch, three calls below the trunk, pushed a
\* segment.
C10_Witness ==
    /\ genKind = "thunder"
    /\ \E s \in segments : s.generation = 3 /\ s.intensity < Tenths(4)
    /\ \E c \in spawned : c.parent.generation = 2

\* C26: every invocation of the generator returns, whatever the geometry and
\* the draws: the call at depth 0 and every call it makes come off the stack.
C26_Terminates == <>(callStack = <<>>)

\* A thunder generator that has returned after branching down to depth 3.
C26_Witness ==
    /\ genKind = "thunder" /\ callStack = <<>>
    /\ \E c \in spawned : c.child.generation = 3
    /\ \E c \in spawned : c.child.generation = 1

(***************************************************************************)
(* The generators with their geometry, run twice on the same random draws.  *)
(* Coordinates are in tenths of a pixel, a draw of fastrand::f32() is in     *)
(* hundredths, sines and cosines in thousandths; divisions round down.      *)
(***************************************************************************)
Px(n) == n * 10

RECURSIVE Newton(_, _)
Newton(n, r) ==
    LET next == (r + n \div r) \div 2
    IN  IF next >= r THEN r ELSE Newton(n, next)

\* f32::sqrt, rounded down.
Sqrt(n) == IF n = 0 THEN 0 ELSE Newton(n, n)

Clamp(v, lo, hi) == IF v < lo THEN lo ELSE IF v > hi THEN hi ELSE v

\* The values a draw of fastrand::f32() takes: 0.05 and 0.50. fastrand::bool() is
\* read off a draw below 0.5.
DrawValues == {5, 50}
DrawsPerStep == 6

\* The arguments of the call at depth 0: a bolt starts on the top row and aims
\* at the bottom, a tendril starts on the orb and aims at the screen edge.
GenArgs ==
    {[kind |-> "thunder", width |-> 24, height |-> 12, x |-> Px(12), y |-> 0,
      target_x |-> Px(12) + off, target_y |-> Px(12)] : off \in {0 - 45, 0}}
        \cup
    {[kind |-> "plasma", width |-> 12, height |-> 12, x |-> Px(6), y |-> Px(4),
      target_x |-> t[1], target_y |-> t[2]] : t \in {<<Px(11), 0>>, <<Px(6), Px(1)>>}}

OutOfBounds(a, px, py) ==
    px < 0 \/ px >= Px(a.width) \/ py < 0 \/ py >= Px(a.height)

Frame(x, y, target_x, target_y, intensity, depth) ==
    [x |-> x, y |-> y, target_x |-> target_x, target_y |-> target_y,
     intensity |-> intensity, generation |-> depth, pc |-> "entry", i |-> 0,
     num_segments |-> 0, current_x |-> x, current_y |-> y,
     control_x |-> 0, control_y |-> 0]

Dist(f) ==
    Sqrt((f.target_x - f.x) * (f.target_x - f.x) + (f.target_y - f.y) * (f.target_y - f.y))

SegmentTo(f, sx, sy, ex, ey) ==
    [x |-> sx, y |-> sy, end_x |-> ex, end_y |-> ey, intensity |-> f.intensity]

\* What one step of a call did: the frames that replace the call on the stack
\* (none when it returned), the segments pushed, the draws consumed.
Outcome(frames, pushed, used) == [frames |-> frames, pushed |-> pushed, used |-> used]

\* The generator up to its loop. generate_tendril draws its control point here.
Enter(a, f, ds) ==
    IF Refused(a.kind, f.generation, f.intensity) \/ OutOfBounds(a, f.x, f.y)
    THEN Outcome(<<>>, <<>>, 0)
    ELSE IF Dist(f) < Px(5)
    THEN Outcome(<<>>,
                 IF OutOfBounds(a, f.target_x, f.target_y) THEN <<>>
                 ELSE <<SegmentTo(f, f.x, f.y, f.target_x, f.target_y)>>,
                 0)
    ELSE LET n == IF Dist(f) \div Px(6) > MinSegments(a.kind) THEN Dist(f) \div Px(6)
                  ELSE MinSegments(a.kind)
             offset(r) == ((r - 50) * Dist(f) * 3) \div 1000
         IN  IF a.kind = "thunder"
             THEN Outcome(<<[f EXCEPT !.pc = "loop", !.num_segments = n]>>, <<>>, 0)
             ELSE Outcome(<<[f EXCEPT !.pc = "loop", !.num_segments = n,
                               !.control_x = f.x + (f.target_x - f.x) \div 2 + offset(ds[1]),
                               !.control_y = f.y + (f.target_y - f.y) \div 2 + offset(ds[2])]>>,
                          <<>>, 2)

\* The target of a child branch: from (px, py), length len in the direction of
\* the parent turned by the angle whose cosine and sine are cos and sin.
Turned(f, px, py, len, cos, sin) ==
    LET dx == f.target_x - f.x
        dy == f.target_y - f.y
    IN  [x |-> px + ((dx * cos - dy * sin) * len) \div (Dist(f) * 1000),
         y |-> py + ((dy * cos + dx * sin) * len) \div (Dist(f) * 1000)]

\* One iteration of generate_branch's loop: draws are the horizontal drift, the
\* vertical bias and the branch chance; a branch draws its side, angle and length.
IterateBranch(a, f, ds) ==
    LET k == f.i + 1
        next_x == f.x + ((f.target_x - f.x) * k) \div f.num_segments
                      + ((ds[1] - 50) * 8) \div 10
        next_y == f.y + ((f.target_y - f.y) * k) \div f.num_segments + (ds[2] * 3) \div 10
        resumed == [f EXCEPT !.i = k, !.current_x = next_x, !.current_y = next_y]
        pushed == <<SegmentTo(f, f.current_x, f.current_y, next_x, next_y)>>
        side == IF ds[4] < 50 THEN 1 ELSE 0 - 1
        \* branch_angle = side * (0.3 + r * 0.5): 0.325 or 0.55 radians
        cos == IF ds[5] < 50 THEN 948 ELSE 853
        sin == side * (IF ds[5] < 50 THEN 319 ELSE 523)
        len == (Dist(f) * (30 + (ds[6] * 40) \div 100)) \div 100
        target == Turned(f, next_x, next_y, len, cos, sin)
        child == Frame(next_x, next_y, target.x, target.y + (len * 3) \div 10,
                       (f.intensity * 7) \div 10, f.generation + 1)
    IN  IF OutOfBounds(a, next_x, next_y) THEN Outcome(<<>>, <<>>, 2)
        ELSE IF ds[3] < 12 /\ SpawnAllowed(a.kind, f.generation, f.i, f.num_segments)
        THEN Outcome(<<resumed, child>>, pushed, 6)
        ELSE Outcome(<<resumed>>, pushed, 3)

\* One iteration of generate_tendril's loop: a point on the quadratic Bezier
\* curve plus noise; out of bounds it is clamped, pushed, and the loop ends.
IterateTendril(a, f, ds) ==
    LET k == f.i + 1
        m == f.num_segments - k
        nn == f.num_segments * f.num_segments
        next_x == (m * m * f.x + 2 * m * k * f.control_x + k * k * f.target_x) \div nn
                      + (ds[1] - 50) \div 5
        next_y == (m * m * f.y + 2 * m * k * f.control_y + k * k * f.target_y) \div nn
                      + (ds[2] - 50) \div 5
        resumed == [f EXCEPT !.i = k, !.current_x = next_x, !.current_y = next_y]
        pushed == <<SegmentTo(f, f.current_x, f.current_y, next_x, next_y)>>
        \* branch_angle = 0.6 or -0.6 radians
        sin == IF ds[4] < 50 THEN 565 ELSE 0 - 565
        len == (Dist(f) * (40 + (ds[5] * 30) \div 100)) \div 100
        target == Turned(f, next_x, next_y, len, 825, sin)
        child == Frame(next_x, next_y, target.x, target.y, (f.intensity * 7) \div 10,
                       f.generation + 1)
    IN  IF OutOfBounds(a, next_x, next_y)
        THEN Outcome(<<>>,
                     <<SegmentTo(f, f.current_x, f.current_y,
                                 Clamp(next_x, 0, Px(a.width - 1)),
                                 Clamp(next_y, 0, Px(a.height - 1)))>>, 2)
        ELSE IF ds[3] < 6 /\ SpawnAllowed(a.kind, f.generation, f.i, f.num_segments)
        THEN Outcome(<<resumed, child>>, pushed, 5)
        ELSE Outcome(<<resumed>>, pushed, 3)

\* One step of the innermost call.
Advance(a, f, ds) ==
    IF f.pc = "entry" THEN Enter(a, f, ds)
    ELSE IF f.i >= f.num_segments THEN Outcome(<<>>, <<>>, 0)
    ELSE IF a.kind = "thunder" THEN IterateBranch(a, f, ds)
    ELSE IterateTendril(a, f, ds)

\* let mut segments = Vec::new(): each invocation pushes to a vector of its own.
FreshSegments_Kept(previous) ==
    IF previous = <<>> THEN <<>> ELSE previous[Len(previous)].segments

FreshSegments(previous) == <<>>

Active(r) == r.stack # <<>>

ReplayInit ==
    /\ genArgs \in GenArgs
    /\ tape = <<>> /\ runs = <<>> /\ turn = 0
    /\ IdleExcept("replay")

\* LightningBolt::new / Tendril::new: an invocation at depth 0 and intensity 1.0;
\* the second starts when the first has returned, and reads the draws from the
\* start of the tape.
Invoke ==
    /\ turn < 2
    /\ turn > 0 => ~Active(runs[turn])
    /\ runs' = Append(runs,
                      [stack |-> <<Frame(genArgs.x, genArgs.y, genArgs.target_x,
                                         genArgs.target_y, FullIntensity, 0)>>,
                       segments |-> FreshSegments(runs), pos |-> 0])
    /\ turn' = turn + 1
    /\ UNCHANGED <<genArgs, tape, nonReplay>>

\* The running invocation takes one step, reading its draws from the tape; the
\* draws it needs beyond the end of the tape are made now and appended.
Replay ==
    /\ turn > 0 /\ Active(runs[turn])
    /\ LET r == runs[turn]
           known == SubSeq(tape, r.pos + 1, Len(tape))
           unread == [j \in 1..DrawsPerStep |-> 50]
           missing == IF Len(known) < DrawsPerStep THEN DrawsPerStep - Len(known) ELSE 0
       IN  \E n \in 0..missing : \E fresh \in [1..n -> DrawValues] :
               LET out == Advance(genArgs, r.stack[Len(r.stack)], known \o fresh \o unread)
               IN  /\ out.used <= Len(known) + n
                   /\ n > 0 => out.used = Len(known) + n
                   /\ r.pos + out.used <= MaxDraws
                   /\ tape' = IF r.pos + out.used > Len(tape)
                              THEN tape \o fresh
                              ELSE tape
                   /\ runs' = [runs EXCEPT ![turn] =
                                  [stack |-> SubSeq(r.stack, 1, Len(r.stack) - 1) \o out.frames,
                                   segments |-> r.segments \o out.pushed,
                                   pos |-> r.pos + out.used]]
    /\ UNCHANGED <<genArgs, turn, nonReplay>>

ReplayNext == Invoke \/ Replay

ReplaySpec == ReplayInit /\ [][ReplayNext]_vars

LavaTermSize == <<40, 1>>
LavaWidth == LavaTermSize[1]
LavaHeight == LavaTermSize[2] * 2

Blob(x, y, radius) == [x |-> x, y |-> y, radius |-> radius]

\* Blobs as update leaves them: radius 6 to 16, x between radius and
\* width - radius, y between -radius and height + 3 * radius + 20.
BlobChoices ==
    {Blob(x, y, Px(6)) : x \in {Px(6), 205, Px(34)}, y \in {0 - Px(5), Px(1), Px(16), 165}}
        \cup {Blob(x, y, Px(16)) : x \in {Px(16), Px(24)}, y \in {Px(1), Px(41), Px(60)}}

BlobLists == UNION {[1..n -> BlobChoices] : n \in 0..MaxBlobs}

\* The influence of one blob on the cell (x, y): none beyond 3.5 radii, none at
\* 2.5 radii or more, else (1 - dist / (2.5 radius))^2.
Influence_WideReach(blob, x, y) ==
    LET dist_sq == (Px(x) - blob.x) * (Px(x) - blob.x) + (Px(y) - blob.y) * (Px(y) - blob.y)
        normalized == (Sqrt(dist_sq) * 1000) \div ((blob.radius * 35) \div 10)
    IN  IF dist_sq * 100 > 35 * 35 * blob.radius * blob.radius THEN 0
        ELSE IF normalized >= 1000 THEN 0
        ELSE ((1000 - normalized) * (1000 - normalized)) \div 1000

Influence(blob, x, y) ==
    LET dist_sq == (Px(x) - blob.x) * (Px(x) - blob.x) + (Px(y) - blob.y) * (Px(y) - blob.y)
        reach == (blob.radius * 25) \div 10
        normalized == (Sqrt(dist_sq) * 1000) \div reach
    IN  IF dist_sq * 100 > 35 * 35 * blob.radius * blob.radius THEN 0
        ELSE IF dist_sq * 100 < 25 * 25 * blob.radius * blob.radius
        THEN LET influence == IF 1000 - normalized > 0 THEN 1000 - normalized ELSE 0
             IN  (influence * influence) \div 1000
        ELSE 0

RECURSIVE FieldValue(_, _, _)
FieldValue(bs, x, y) ==
    IF bs = <<>> THEN 0 ELSE Influence(Head(bs), x, y) + FieldValue(Tail(bs), x, y)

\* field_to_color: the lava color from the threshold 0.4 on, else the background.
field_to_color(field_value) == IF field_value >= 400 THEN "lava" ELSE "bg"

LavaCellsOf(w, h) == 1..(w * h)

\* The lamp with some blobs, as an update has left them; the field is not yet
\* computed for them.
LavaInit ==
    /\ blobs \in BlobLists
    /\ field = [c \in LavaCellsOf(LavaWidth, LavaHeight) |-> 0]
    /\ lavaCells = <<>>
    /\ lavaOp = "new"
    /\ IdleExcept("lava")

\* LavaLampEffect::update, the metaball field loop over all cells.
ComputeField ==
    /\ lavaOp = "new"
    /\ field' = [c \in LavaCellsOf(LavaWidth, LavaHeight) |->
                    FieldValue(blobs, (c - 1) % LavaWidth, (c - 1) \div LavaWidth)]
    /\ lavaOp' = "update"
    /\ UNCHANGED <<blobs, lavaCells, nonLava>>

\* LavaLampEffect::render, the classification of every cell's field value.
ClassifyField ==
    /\ lavaOp = "update"
    /\ lavaCells' = [c \in DOMAIN field |-> field_to_color(field[c])]
    /\ lavaOp' = "render"
    /\ UNCHANGED <<blobs, field, nonLava>>

LavaNext == ComputeField \/ ClassifyField

LavaSpec == LavaInit /\ [][LavaNext]_vars

\* C12: a cell exactly at the center of a blob has field >= 0.4 and is classified
\* as lava; a cell at distance >= 2.5 radii from every blob has field 0 and is
\* classified as background.
C12_MetaballThreshold ==
    lavaOp = "render" =>
        \A x \in 0..(LavaWidth - 1), y \in 0..(LavaHeight - 1) :
            LET c == y * LavaWidth + x + 1
                Blobs == {blobs[j] : j \in DOMAIN blobs}
                sq(b) == (Px(x) - b.x) * (Px(x) - b.x) + (Px(y) - b.y) * (Px(y) - b.y)
            IN  /\ (\E b \in Blobs : b.x = Px(x) /\ b.y = Px(y)) =>
                       field[c] >= 400 /\ lavaCells[c] = "lava"
                /\ (\A b \in Blobs : 4 * sq(b) >= 25 * b.radius * b.radius) =>
                       field[c] = 0 /\ lavaCells[c] = "bg"

\* A rendered lamp with a blob centered on a cell, a cell out of reach of every
\* blob, and a cell at exactly 2.5 radii from a blob.
C12_Witness ==
    /\ lavaOp = "render" /\ blobs # <<>>
    /\ \E c \in DOMAIN field : field[c] >= 1000 /\ lavaCells[c] = "lava"
    /\ \E c \in DOMAIN field : field[c] = 0 /\ lavaCells[c] = "bg"
    /\ \E j \in DOMAIN blobs, x \in 0..(LavaWidth - 1), y \in 0..(LavaHeight - 1) :
           4 * ((Px(x) - blobs[j].x) * (Px(x) - blobs[j].x)
                    + (Px(y) - blobs[j].y) * (Px(y) - blobs[j].y))
               = 25 * blobs[j].radius * blobs[j].radius

(***************************************************************************)
(* Noise fields: FastNoise in src/src/effects/clouds.rs and star.rs (the    *)
(* two copies are the same code).  A u32 is a pair <<high, low>> of 16-bit  *)
(* halves, so that the wrapping arithmetic of the shuffle is kept.          *)
(* Coordinates are in quarters, fade values in 32nds, gradients in          *)
(* quarters, and a noise value in 4096ths: every f32 operation of get is    *)
(* exact on these.                                                          *)
(***************************************************************************)
Half == 65536

\* fastrand::u32(..): the seeds drawn for the fields.
Seeds == {<<0, 0>>, <<0, 1>>, <<65535, 65535>>}

\* x and y of a query, in quarters.
Coordinates == {-3, 6, 1023}

\* rng_state.wrapping_mul(1103515245).wrapping_add(12345)
NextRng(rng_state) ==
    LET mh == 16838
        ml == 20077
        low == rng_state[2] * ml + 12345
        high == ((rng_state[1] * ml) % Half) + ((rng_state[2] * mh) % Half) + (low \div Half)
    IN  <<high % Half, low % Half>>

\* rng_state % m, for m up to 256
RngMod(rng_state, m) ==
    (((rng_state[1] % m) * (Half % m)) + (rng_state[2] % m)) % m

\* n turns of the Fisher-Yates loop of new, from index i downwards; the
\* indices of the loop are those of the table other than 0.
RECURSIVE ShuffleTurns(_, _, _)
ShuffleTurns(state, i, n) ==
    IF n = 0 \/ i \notin DOMAIN state.perm \ {0} THEN state
    ELSE LET rng == NextRng(state.rng_state)
             j == RngMod(rng, i + 1)
             perm == state.perm
         IN  ShuffleTurns([perm |-> [perm EXCEPT ![i] = perm[j], ![j] = perm[i]], rng_state |-> rng], i - 1, n - 1)

\* The Fisher-Yates loop of new, from index i down to 1, sixteen turns at a
\* time.
RECURSIVE Shuffle(_, _)
Shuffle(state, i) ==
    IF i \notin DOMAIN state.perm \ {0} THEN state.perm
    ELSE Shuffle(ShuffleTurns(state, i, 16), i - 16)

FastNoise_new(seed) ==
    LET perm == Shuffle([perm |-> [i \in 0..255 |-> i], rng_state |-> seed], 255)
    IN  [seed |-> seed, perm |-> [i \in 0..511 |-> perm[i % 256]]]

\* The tables of the seeds, built once.
Tables == [seed \in Seeds |-> FastNoise_new(seed)]

grad(hash, x, y) ==
    LET h == hash % 8
        u == IF h < 4 THEN x ELSE y
        v == IF h < 4 THEN y ELSE x
    IN  (IF h % 2 = 0 THEN u ELSE -u) + (IF (h \div 2) % 2 = 0 THEN v ELSE -v)

\* xf * xf * (3.0 - 2.0 * xf), in 32nds, of xf in quarters
Fade(xf) == xf * xf * (6 - xf)

get(noise, x, y) ==
    LET xi == x \div 4
        yi == y \div 4
        xf == x - xi * 4
        yf == y - yi * 4
        u == Fade(xf)
        v == Fade(yf)
        x0 == xi % 256
        x1 == (xi + 1) % 256
        y0 == yi % 256
        y1 == (yi + 1) % 256
        aa == noise.perm[noise.perm[x0] + y0]
        ab == noise.perm[noise.perm[x0] + y1]
        ba == noise.perm[noise.perm[x1] + y0]
        bb == noise.perm[noise.perm[x1] + y1]
        g00 == grad(aa, xf, yf)
        g10 == grad(ba, xf - 4, yf)
        g01 == grad(ab, xf, yf - 4)
        g11 == grad(bb, xf - 4, yf - 4)
        x1_interp == 32 * g00 + u * (g10 - g00)
        x2_interp == 32 * g01 + u * (g11 - g01)
    IN  32 * x1_interp + v * (x2_interp - x1_interp)

NoiseInit ==
    /\ \E seed \in Seeds : noise1 = FastNoise_new(seed)
    /\ \E seed \in Seeds : noise2 = FastNoise_new(seed)
    /\ answers = <<>>
    /\ IdleExcept("noise")

Answer(n, noise, x, y) == [field |-> n, seed |-> noise.seed, x |-> x, y |-> y, value |-> get(noise, x, y)]

\* self.noise1.get(x, y) with a table that moves on at each query
Query1_Stepping ==
    /\ Len(answers) < MaxQueries
    /\ \E x \in Coordinates : \E y \in Coordinates :
           answers' = Append(answers, Answer(1, noise1, x, y))
    /\ noise1' = [noise1 EXCEPT !.perm = [i \in 0..511 |-> noise1.perm[(i + 1) % 512]]]
    /\ UNCHANGED <<noise2, nonNoise>>

\* self.noise1.get(x, y): get takes &self and writes nothing
Query1 ==
    /\ Len(answers) < MaxQueries
    /\ \E x \in Coordinates : \E y \in Coordinates :
           answers' = Append(answers, Answer(1, noise1, x, y))
    /\ UNCHANGED <<noise1, noise2, nonNoise>>

\* self.noise2.get(x, y)
Query2 ==
    /\ Len(answers) < MaxQueries
    /\ \E x \in Coordinates : \E y \in Coordinates :
           answers' = Append(answers, Answer(2, noise2, x, y))
    /\ UNCHANGED <<noise1, noise2, nonNoise>>

NoiseNext == Query1 \/ Query2

NoiseSpec == NoiseInit /\ [][NoiseNext]_vars

SmallKinds == {"thunder", "fireworks", "fire"}

Builds == {"checked", "wrapping"}

\* terminal::size(): columns and rows of a small terminal
SmallSizes == (1..MaxCols) \X (1..MaxRows)

\* The usize 2^64 - k, written as the integer -k.
Wrapped(k) == -k

\* fastrand::usize(lo..hi): the values it can return; none when it panics.
RandomUsize(lo, hi) == IF lo >= hi THEN {} ELSE lo..(hi - 1)

\* fastrand::usize(10..self.width - 10), of a strike of the thunder effect
StrikeColumns(width, build) ==
    IF width >= 10 THEN RandomUsize(10, width - 10)
    ELSE IF build = "checked" THEN {}
    ELSE {10, Wrapped(10 - width + 1)}

\* fastrand::usize(self.width / 4..self.width * 3 / 4), of a launch
LaunchColumns(width) == RandomUsize(width \div 4, (width * 3) \div 4)

\* fastrand::usize(self.height / 6..self.height * 2 / 5), of a launch
LaunchTargets(height) == RandomUsize(height \div 6, (height * 2) \div 5)

\* fastrand::usize(0..self.width), of a spark of the fire
SparkColumns(width) == RandomUsize(0, width)

\* buffer[(self.height - 2) * self.width + x] is inside the buffer
SparkIndexed(width, height, x) ==
    /\ height >= 2
    /\ (height - 2) * width + x < width * height

SmallInit ==
    /\ sKind \in SmallKinds
    /\ \E size \in SmallSizes : sWidth = size[1] /\ sHeight = size[2] * 2
    /\ sBuild \in Builds
    /\ sOp = "new"
    /\ sOutcome = "ok"
    /\ sDrawn = <<>>
    /\ IdleExcept("small")

\* ThunderEffect::update: when a strike is due it draws the column of one
\* bolt, and at times of a second one.
ThunderUpdate ==
    /\ sKind = "thunder" /\ sOutcome = "ok"
    /\ sOp' = "update"
    /\ \E due \in BOOLEAN : \E twice \in BOOLEAN :
           LET columns == StrikeColumns(sWidth, sBuild)
           IN  IF ~due THEN sOutcome' = "ok" /\ sDrawn' = <<>>
               ELSE IF columns = {} THEN sOutcome' = "panic" /\ sDrawn' = <<>>
               ELSE /\ sOutcome' = "ok"
                    /\ \E x \in columns : \E x2 \in columns :
                           sDrawn' = IF twice THEN <<x, x2>> ELSE <<x>>
    /\ UNCHANGED <<sKind, sWidth, sHeight, sBuild, nonSmall>>

\* FireworksEffect::update: when a launch is due it draws the column and
\* the target row of the rocket, the column first.
FireworksUpdate ==
    /\ sKind = "fireworks" /\ sOutcome = "ok"
    /\ sOp' = "update"
    /\ \E due \in BOOLEAN :
           IF ~due THEN sOutcome' = "ok" /\ sDrawn' = <<>>
           ELSE IF LaunchColumns(sWidth) = {} THEN sOutcome' = "panic" /\ sDrawn' = <<>>
           ELSE \E x \in LaunchColumns(sWidth) :
                    IF LaunchTargets(sHeight) = {} THEN sOutcome' = "panic" /\ sDrawn' = <<x>>
                    ELSE /\ sOutcome' = "ok"
                         /\ \E target_y \in LaunchTargets(sHeight) : sDrawn' = <<x, target_y>>
    /\ UNCHANGED <<sKind, sWidth, sHeight, sBuild, nonSmall>>

\* FireEffect::update: it writes the fuel row height - 1, and at times draws
\* the column of a spark and reads the row height - 2 there.
FireUpdate ==
    /\ sKind = "fire" /\ sOutcome = "ok"
    /\ sOp' = "update"
    /\ \E spark \in BOOLEAN :
           IF sHeight < 1 THEN sOutcome' = "panic" /\ sDrawn' = <<>>
           ELSE IF ~spark THEN sOutcome' = "ok" /\ sDrawn' = <<>>
           ELSE IF SparkColumns(sWidth) = {} THEN sOutcome' = "panic" /\ sDrawn' = <<>>
           ELSE \E x \in SparkColumns(sWidth) :
                    /\ sDrawn' = <<x>>
                    /\ sOutcome' = IF SparkIndexed(sWidth, sHeight, x) THEN "ok" ELSE "panic"
    /\ UNCHANGED <<sKind, sWidth, sHeight, sBuild, nonSmall>>

\* handle_event of the three effects is the default of the trait: it does
\* nothing with the event.
SmallHandleEvent ==
    /\ sOutcome = "ok" /\ sOp # "handle_event"
    /\ sOp' = "handle_event"
    /\ UNCHANGED <<sKind, sWidth, sHeight, sBuild, sOutcome, sDrawn, nonSmall>>

SmallNext == ThunderUpdate \/ FireworksUpdate \/ FireUpdate \/ SmallHandleEvent

SmallSpec == SmallInit /\ [][SmallNext]_vars

\* C14: on every terminal size, new, update and handle_event of an effect
\* complete without a panic.
C14_NoPanic == sOutcome = "ok"

(***************************************************************************)
(* The loop of step_generation, cell by cell (src/gameoflife.rs). The       *)
(* automaton is the one of GolInit, on the smaller grids.                   *)
(***************************************************************************)
StepTermSizes == {<<2, 1>>, <<3, 1>>}

StepInit ==
    /\ \E size \in StepTermSizes : golW = size[1] /\ golH = size[2] * 2
    /\ num_states \in 2..MaxStates
    /\ cells \in [1..(golW * golH) -> {0, num_states - 1}]
    /\ next_cells = [idx \in 1..(golW * golH) |-> 0]
    /\ \E draw \in RuleDraws :
           /\ survival_rules = random_rules(draw).survival
           /\ birth_rules = random_rules(draw).birth
    /\ generation = 0
    /\ golOp = "new"
    /\ stepAt = -1
    /\ before = cells
    /\ swaps = 0
    /\ IdleExcept("step")

\* update calls step_generation: the loops start at the first cell.
BeginStep ==
    /\ stepAt = -1
    /\ generation < MaxGenerations
    /\ stepAt' = 0
    /\ before' = cells
    /\ swaps' = 0
    /\ UNCHANGED <<nonStepGol, golVars>>

\* The loop body that writes the next state into the grid it reads.
ComputeCell_InPlace ==
    /\ stepAt >= 0 /\ stepAt < golW * golH
    /\ LET idx == stepAt + 1
           x == stepAt % golW
           y == stepAt \div golW
           neighbors == count_neighbors(cells, golW, golH, num_states, x, y)
           next == NextCell(cells[idx], neighbors, num_states, birth_rules, survival_rules)
       IN  /\ cells' = [cells EXCEPT ![idx] = next]
           /\ next_cells' = [next_cells EXCEPT ![idx] = next]
    /\ stepAt' = stepAt + 1
    /\ UNCHANGED <<nonStepGol, golW, golH, num_states, survival_rules, birth_rules, generation, golOp, before, swaps>>

\* One turn of the inner loop: state and neighbors are read from self.cells, the
\* next state is written to self.next_cells[idx].
ComputeCell ==
    /\ stepAt >= 0 /\ stepAt < golW * golH
    /\ LET idx == stepAt + 1
           x == stepAt % golW
           y == stepAt \div golW
           neighbors == count_neighbors(cells, golW, golH, num_states, x, y)
       IN  next_cells' = [next_cells EXCEPT ![idx] =
               NextCell(cells[idx], neighbors, num_states, birth_rules, survival_rules)]
    /\ stepAt' = stepAt + 1
    /\ UNCHANGED <<nonStepGol, golW, golH, num_states, survival_rules, birth_rules, generation, golOp, cells, before, swaps>>

\* std::mem::swap(&mut self.cells, &mut self.next_cells), after the loops.
SwapBuffers ==
    /\ stepAt = golW * golH
    /\ cells' = next_cells
    /\ next_cells' = cells
    /\ swaps' = swaps + 1
    /\ stepAt' = -1
    /\ generation' = generation + 1
    /\ golOp' = "step"
    /\ UNCHANGED <<nonStepGol, golW, golH, num_states, survival_rules, birth_rules, before>>

StepNext == BeginStep \/ ComputeCell \/ SwapBuffers

StepSpec == StepInit /\ [][StepNext]_vars

\* C20: while step_generation runs, the current buffer is the grid the call began
\* with and no exchange has been made, and every next state written so far is the
\* one the rule gives on that grid; after the call the buffers have been exchanged
\* exactly once: the current buffer is the full next generation of that grid and
\* the scratch buffer is that grid.
C20_ReadsPreStepGrid ==
    LET whole == NextGrid(before, golW, golH, num_states, birth_rules, survival_rules)
    IN  /\ stepAt >= 0 =>
               /\ cells = before
               /\ swaps = 0
               /\ \A idx \in 1..stepAt : next_cells[idx] = whole[idx]
        /\ (stepAt = -1 /\ golOp = "step") =>
               /\ swaps = 1
               /\ cells = whole
               /\ next_cells = before

\* The second generation has been computed up to its last cell, on a grid where
\* the next generation differs from the current one.
C20_Witness ==
    /\ stepAt = golW * golH
    /\ generation = 1
    /\ golW = 3
    /\ next_cells # cells
    /\ \E idx \in DOMAIN cells : cells[idx] \notin {0, num_states - 1}

(***************************************************************************)
(* GameOfLifeEffect::handle_event (src/gameoflife.rs): the keys and mouse   *)
(* buttons that change the rules, the state count and the cells, between    *)
(* generations. Three specifications run on the automaton's variables, one  *)
(* per kind of input: RulesSpec (the rule keys and reset), CountSpec (the   *)
(* state-count keys and reset) and CellsSpec (generations, clicks and the   *)
(* state-count keys on an automaton of few states). Generations are not     *)
(* counted in them.                                                         *)
(***************************************************************************)
\* The terminal size (cols, rows) of the automaton that receives the events.
EventTermSizes == {<<1, 1>>}

\* 2 + fastrand::u8(0..9)
NewStates == 2..10

\* The digits whose keys are pressed, and the shifted symbol of each.
RuleDigits == {2, 3}
SymbolDigit(c) == CASE c = "@" -> 2 [] c = "#" -> 3
Symbols == {"@", "#"}

\* The mouse positions (column, row) clicked: the cell (0, 0), and one outside
\* the grid.
ClickPositions == {<<0, 0>>, <<1, 0>>}

\* position / remove, else push and sort, on a sorted Vec without duplicates.
Toggle(rules, num) == IF num \in rules THEN rules \ {num} ELSE rules \cup {num}

\* GameOfLifeEffect::new, with the state count drawn from states.
New(states) ==
    /\ \E size \in EventTermSizes : golW = size[1] /\ golH = size[2] * 2
    /\ num_states \in states
    /\ cells \in [1..(golW * golH) -> {0, num_states - 1}]
    /\ next_cells = [idx \in 1..(golW * golH) |-> 0]
    /\ \E draw \in RuleDraws :
           /\ survival_rules = random_rules(draw).survival
           /\ birth_rules = random_rules(draw).birth
    /\ generation = 0
    /\ golOp = "new"
    /\ IdleExcept("gol")

\* KeyCode::Char('r')
KeyRandomize ==
    /\ golOp # "off"
    /\ \E draw \in RuleDraws :
           /\ survival_rules' = random_rules(draw).survival
           /\ birth_rules' = random_rules(draw).birth
    /\ golOp' = "r"
    /\ UNCHANGED <<nonGol, golW, golH, cells, next_cells, num_states, generation>>

\* '+' or '=' without the test against 20.
KeyPlus_NoLimit ==
    /\ golOp # "off"
    /\ num_states' = num_states + 1
    /\ golOp' = "+"
    /\ UNCHANGED <<nonGol, golW, golH, cells, next_cells, survival_rules, birth_rules,
                   generation>>

\* KeyCode::Char('+') | KeyCode::Char('=')
KeyPlus ==
    /\ golOp # "off"
    /\ num_states' = IF num_states < 20 THEN num_states + 1 ELSE num_states
    /\ golOp' = "+"
    /\ UNCHANGED <<nonGol, golW, golH, cells, next_cells, survival_rules, birth_rules,
                   generation>>

\* KeyCode::Char('-') | KeyCode::Char('_')
KeyMinus ==
    /\ golOp # "off"
    /\ num_states' = IF num_states > 2 THEN num_states - 1 ELSE num_states
    /\ golOp' = "-"
    /\ UNCHANGED <<nonGol, golW, golH, cells, next_cells, survival_rules, birth_rules,
                   generation>>

\* KeyCode::Char(c @ '0'..='8') without SHIFT: toggle a survival count.
KeyDigit ==
    /\ golOp # "off"
    /\ \E num \in RuleDigits : survival_rules' = Toggle(survival_rules, num)
    /\ golOp' = "digit"
    /\ UNCHANGED <<nonGol, golW, golH, cells, next_cells, num_states, birth_rules,
                   generation>>

\* KeyCode::Char(c @ '0'..='8') with SHIFT: toggle a birth count.
KeyShiftDigit ==
    /\ golOp # "off"
    /\ \E num \in RuleDigits : birth_rules' = Toggle(birth_rules, num)
    /\ golOp' = "shift-digit"
    /\ UNCHANGED <<nonGol, golW, golH, cells, next_cells, num_states, survival_rules,
                   generation>>

\* KeyCode::Char(c) with c one of )!@#$%^&*: toggle a birth count.
KeySymbol ==
    /\ golOp # "off"
    /\ \E c \in Symbols : birth_rules' = Toggle(birth_rules, SymbolDigit(c))
    /\ golOp' = "symbol"
    /\ UNCHANGED <<nonGol, golW, golH, cells, next_cells, num_states, survival_rules,
                   generation>>

\* MouseEventKind::Down(MouseButton::Left): cycle the cell under the mouse.
LeftClick ==
    /\ golOp # "off"
    /\ \E pos \in ClickPositions :
           LET x == pos[1]
               y == pos[2] * 2
               idx == CellIndex(golW, x, y)
           IN  cells' = IF x < golW /\ y < golH
                        THEN [cells EXCEPT ![idx] = (@ + 1) % num_states]
                        ELSE cells
    /\ golOp' = "left"
    /\ UNCHANGED <<nonGol, golW, golH, next_cells, num_states, survival_rules,
                   birth_rules, generation>>

\* MouseEventKind::Down(MouseButton::Right): reset(), with the state count drawn
\* from states.
RightClick(states) ==
    /\ golOp # "off"
    /\ \E draw \in RuleDraws :
           /\ survival_rules' = random_rules(draw).survival
           /\ birth_rules' = random_rules(draw).birth
    /\ num_states' \in states
    /\ cells' \in [1..(golW * golH) -> {0, num_states' - 1}]
    /\ golOp' = "right"
    /\ UNCHANGED <<nonGol, golW, golH, next_cells, generation>>

\* update, when the update interval has passed: step_generation
Generation ==
    /\ golOp # "off"
    /\ cells' = NextGrid(cells, golW, golH, num_states, birth_rules, survival_rules)
    /\ next_cells' = cells
    /\ golOp' = "step"
    /\ UNCHANGED <<nonGol, golW, golH, num_states, survival_rules, birth_rules,
                   generation>>

RulesNext ==
    KeyRandomize \/ KeyDigit \/ KeyShiftDigit \/ KeySymbol \/ RightClick(NewStates)

RulesSpec == New(NewStates) /\ [][RulesNext]_vars

CountNext == KeyPlus \/ KeyMinus \/ RightClick(NewStates)

CountSpec == New(NewStates) /\ [][CountNext]_vars

\* The automaton has at most MaxStates states when constructed or reset, and one
\* more after '+'.
CellsNext ==
    \/ Generation \/ LeftClick \/ RightClick(2..MaxStates)
    \/ KeyMinus \/ (num_states <= MaxStates /\ KeyPlus)

CellsSpec == New(2..MaxStates) /\ [][CellsNext]_vars

(***************************************************************************)
(* Claims about the automaton's events                                      *)
(***************************************************************************)
\* C23: after any sequence of rule-changing inputs the birth and survival rule
\* sets are never both empty.
C23_RulesNeverBothEmpty == ~(birth_rules = {} /\ survival_rules = {})

C25_CellsWithinStates == \A idx \in DOMAIN cells : cells[idx] <= num_states - 1

(***************************************************************************)
(* LavaLampEffect: the motion of the blobs. Positions and radii are in      *)
(* thousandths of a pixel, velocities in thousandths of a pixel per second, *)
(* temperatures in units of 1/1200; dt is 1/60 s; divisions round down. The *)
(* horizontal position only gets clamped and is left out.                   *)
(***************************************************************************)
\* The terminal heights (rows) the lamp is constructed for: height = rows * 2.
LampRows == {1, 12}

\* 8 + fastrand::usize(0..5)
BlobCounts == {8, 12}

\* The draws fastrand::f32() < 0.05 of the updates of one run: the number of
\* failing draws between two succeeding ones. Every run has succeeding draws
\* again and again.
SpawnGaps == {0, 5}

\* Whether the draw of this update succeeds, and the draws left after it.
Drawn(spawn) == spawn.left = 0
NextDraw(spawn) == [spawn EXCEPT !.left = IF @ = 0 THEN spawn.gap ELSE @ - 1]

Milli(n) == n * 1000
Hot == 1200

\* 6.0 + fastrand::f32() * 10.0
Radius(roll) == Draw(roll, Milli(6), Milli(10))

\* The blobs LavaLampEffect::new pushes.
FirstBlob(roll, h) ==
    [y |-> h + Radius(roll) * 2 - Draw(roll, 0, Milli(40)), vy |-> 0,
     radius |-> Radius(roll), temperature |-> Draw(roll, (Hot * 8) \div 10, (Hot \div 5) + 1)]

\* The push without the test of the blob count.
Spawns_NoLimit(bs, roll, spawn, h) ==
    IF Drawn(spawn)
    THEN <<[y |-> h + Radius(roll) * 2 + Milli(10), vy |-> 0, radius |-> Radius(roll),
            temperature |-> Hot]>>
    ELSE <<>>

\* The blobs an update pushes: one, below the screen, if the draw succeeds and
\* there are fewer than 25 blobs.
Spawns(bs, roll, spawn, h) ==
    IF Drawn(spawn) /\ Len(bs) < 25
    THEN <<[y |-> h + Radius(roll) * 2 + Milli(10), vy |-> 0, radius |-> Radius(roll),
            temperature |-> Hot]>>
    ELSE <<>>

ClampTemperature(t) == IF t < 0 THEN 0 ELSE IF t > Hot THEN Hot ELSE t

\* The closure of self.blobs.retain_mut up to its last line: buoyancy, damping,
\* the move, and the temperature change by height.
MoveBlob(b, h) ==
    LET buoyancy == ((Hot \div 2 - b.temperature) * Milli(40)) \div Hot
        vy == ((b.vy + buoyancy \div 60) * 92) \div 100
        y == b.y + (vy * 8) \div 60
        t == IF y > h - b.radius * 3 THEN b.temperature + Hot \div 120
             ELSE IF y < 0 THEN b.temperature
             ELSE IF y * 10 < h * 3 THEN b.temperature - Hot \div 600
             ELSE IF y * 10 > h * 7 THEN b.temperature + (Hot * 15) \div 6000
             ELSE b.temperature
    IN  [y |-> y, vy |-> vy, radius |-> b.radius, temperature |-> ClampTemperature(t)]

\* The last line of the closure: whether the blob is kept.
OnScreen(b, h) == b.y > 0 - b.radius /\ b.y < h + b.radius * 3 + Milli(20)

Moved(bs, h) == [i \in DOMAIN bs |-> MoveBlob(bs[i], h)]

\* LavaLampEffect::new
LampInit ==
    /\ \E rows \in LampRows : lampH = Milli(rows * 2)
    /\ lampRoll \in Rolls /\ \E gap \in SpawnGaps : spawnRoll = [gap |-> gap, left |-> gap]
    /\ \E count \in BlobCounts : lampBlobs = [i \in 1..count |-> FirstBlob(lampRoll, lampH)]
    /\ lampBefore = 0 /\ lampPushed = <<>> /\ lampExits = <<>>
    /\ lampOp = "new"
    /\ IdleExcept("lamp")

\* LavaLampEffect::update(FIXED_DT), the blobs: the spawn, then the retain pass
\* over all blobs, the one just pushed too.
LampUpdate ==
    /\ lampOp # "off"
    /\ LET pushed == Spawns(lampBlobs, lampRoll, spawnRoll, lampH)
           moved == Moved(lampBlobs \o pushed, lampH)
       IN  /\ lampBlobs' = SelectSeq(moved, LAMBDA b : OnScreen(b, lampH))
           /\ lampPushed' = pushed
           /\ lampExits' = [i \in 1..Len(SelectSeq(moved, LAMBDA b : ~OnScreen(b, lampH))) |->
                               LET b == SelectSeq(moved, LAMBDA c : ~OnScreen(c, lampH))[i]
                               IN  [blob |-> b,
                                    edge |-> IF b.y > 0 - b.radius THEN "bottom" ELSE "top"]]
    /\ lampBefore' = Len(lampBlobs)
    /\ spawnRoll' = NextDraw(spawnRoll)
    /\ lampOp' = "update"
    /\ UNCHANGED <<lampH, lampRoll, nonLamp>>

LampNext == LampUpdate

LampSpec == LampInit /\ [][LampNext]_vars

\* run_effect calls update in every iteration of its loop.
LampFairSpec == LampSpec /\ WF_vars(LampUpdate)

(***************************************************************************)
(* Claims about the blobs of the lamp                                       *)
(***************************************************************************)
LeftByTop == \E i \in DOMAIN lampExits : lampExits[i].edge = "top"

Centi(n) == n * 100

\* width and height of the water.
FishSize == <<Centi(80), Centi(48)>>

\* Fish::new: fastrand::f32() * 0.3, or 0.5 + fastrand::f32() * 0.5.
Independences == {0, 29, 50, 99}

\* The fish of the snapshot besides the updated one, by their offset from it: one
\* closer than 10, one between 10 and 30, one farther than 30.
Offsets == {<<3, 4>>, <<-12, 16>>, <<30, -40>>}

Swimmer(x, y, vx, vy, independence) ==
    [x |-> x, y |-> y, vx |-> vx, vy |-> vy, target_vx |-> 0, target_vy |-> 0,
     independence |-> independence]

\* The draws of fastrand::f32() that decide the dart: 0.01, 0.05, 0.50.
DartDraws == {100, 500, 5000}

\* The currents (current_x, current_y) of the effect.
Currents == {<<0, 0>>, <<30, -20>>}

\* The sum of f[o] over the fish o in S.
RECURSIVE Sum(_, _)
Sum(S, f) == IF S = {} THEN 0
            ELSE LET o == CHOOSE o \in S : TRUE IN f[o] + Sum(S \ {o}, f)

\* The loop over others: the fish within sqrt(0.1) .. 30 of f, and the three sums;
\* alignment and cohesion are then divided by nearby_count.
DistSq(f, o) == (o.x - f.x) * (o.x - f.x) + (o.y - f.y) * (o.y - f.y)
Nearby(f, others) == {o \in others : DistSq(f, o) > 1000 /\ DistSq(f, o) < Centi(Centi(900))}
Close(f, others) == {o \in Nearby(f, others) : DistSq(f, o) < Centi(Centi(100))}

Separation(f, others) ==
    LET ux == [o \in Close(f, others) |-> 0 - (Centi(o.x - f.x) \div Sqrt(DistSq(f, o)))]
        uy == [o \in Close(f, others) |-> 0 - (Centi(o.y - f.y) \div Sqrt(DistSq(f, o)))]
    IN  <<Sum(Close(f, others), ux), Sum(Close(f, others), uy)>>

Mean(total, count) == IF count > 0 THEN total \div count ELSE total

Alignment(f, others) ==
    LET vx == [o \in others |-> o.vx]
        vy == [o \in others |-> o.vy]
        count == Cardinality(Nearby(f, others))
    IN  <<Mean(Sum(Nearby(f, others), vx), count), Mean(Sum(Nearby(f, others), vy), count)>>

Cohesion(f, others) ==
    LET dx == [o \in others |-> o.x - f.x]
        dy == [o \in others |-> o.y - f.y]
        count == Cardinality(Nearby(f, others))
    IN  <<Mean(Sum(Nearby(f, others), dx), count), Mean(Sum(Nearby(f, others), dy), count)>>

\* dart_chance = 0.02 + independence * 0.06, in ten-thousandths.
DartChance(independence) == 200 + independence * 6

\* A weight in tenths, and the school factor 1.0 - independence.
Weighted(v, tenths) == (v * tenths) \div 10
SchoolFactor(independence) == 100 - independence
Scaled(v, factor) == (v * factor) \div 100

\* What "Combine behaviors" adds to one component of the target velocity.
Combined(sep, ali, coh, independence) ==
    Weighted(sep, 80) + Scaled(Weighted(ali, 2), SchoolFactor(independence))
        + Scaled(Weighted(coh, 1), SchoolFactor(independence))

\* The speed limit of 50 and the drag.
Limited(vx, vy) ==
    LET speed == Sqrt(vx * vx + vy * vy)
        lx == IF speed > Centi(50) THEN (vx * Centi(50)) \div speed ELSE vx
        ly == IF speed > Centi(50) THEN (vy * Centi(50)) \div speed ELSE vy
    IN  <<(lx * 99) \div 100, (ly * 99) \div 100>>

Wrap(v, size) == IF v < 0 THEN v + size ELSE IF v >= size THEN v - size ELSE v

\* The state in which update is called on a fish at the middle of the water: it
\* is at rest as Fish::new made it, the others swim.
FishInit ==
    /\ \E independence \in Independences :
           fishSelf = Swimmer(Centi(40), Centi(24), 0, 0, independence)
    /\ \E offsets \in SUBSET Offsets :
           fishOthers = {fishSelf} \cup
               {Swimmer(Centi(40 + d[1]), Centi(24 + d[2]), Centi(10), Centi(-5), 0) :
                    d \in offsets}
    /\ \E draw \in DartDraws, roll \in Rolls : fishDraw = [dart |-> draw, roll |-> roll]
    /\ fishCurrent \in Currents
    /\ fishTerms = <<>>
    /\ fishOp = "new"
    /\ IdleExcept("fish")

\* Fish::update(FIXED_DT, others, width, height, current_x, current_y, time)
FishUpdate ==
    /\ fishOp = "new"
    /\ LET f == fishSelf
           sep == Separation(f, fishOthers)
           ali == Alignment(f, fishOthers)
           coh == Cohesion(f, fishOthers)
           darted == fishDraw.dart < DartChance(f.independence)
           dart_vx == IF darted THEN Draw(fishDraw.roll, Centi(-40), Centi(80)) ELSE f.target_vx
           dart_vy == IF darted THEN Draw(fishDraw.roll, Centi(-30), Centi(60)) ELSE f.target_vy
           force == <<Combined(sep[1], ali[1], coh[1], f.independence),
                      Combined(sep[2], ali[2], coh[2], f.independence)>>
           target_vx == dart_vx + force[1] + fishCurrent[1] * 10
           target_vy == dart_vy + force[2] + fishCurrent[2] * 5
           v == Limited(f.vx + ((target_vx - f.vx) * 5) \div 100,
                        f.vy + ((target_vy - f.vy) * 5) \div 100)
       IN  /\ fishSelf' = [f EXCEPT !.target_vx = target_vx, !.target_vy = target_vy,
                                     !.vx = v[1], !.vy = v[2],
                                     !.x = Wrap(f.x + v[1] \div 60, FishSize[1]),
                                     !.y = Wrap(f.y + v[2] \div 60, FishSize[2])]
           /\ fishTerms' = [separation |-> sep, alignment |-> ali, cohesion |-> coh,
                            force |-> force, darted |-> darted]
    /\ fishOp' = "update"
    /\ UNCHANGED <<fishOthers, fishDraw, fishCurrent, nonFish>>

FishNext == FishUpdate

FishSpec == FishInit /\ [][FishNext]_vars

(***************************************************************************)
(* Claims about the fish                                                    *)
(***************************************************************************)
\* C28: the separation, alignment and cohesion contributions to the target
\* velocity are each multiplied by 1 - independence, and the fish darts when its
\* draw is below a chance that grows with its independence.
C28_ScaledByIndependence ==
    fishOp = "update" =>
        LET factor == 100 - fishSelf.independence
            part(k) == Scaled(Weighted(fishTerms.separation[k], 80), factor)
                           + Scaled(Weighted(fishTerms.alignment[k], 2), factor)
                           + Scaled(Weighted(fishTerms.cohesion[k], 1), factor)
        IN  /\ fishTerms.force = <<part(1), part(2)>>
            /\ fishTerms.darted <=> fishDraw.dart < 200 + 6 * fishSelf.independence
            /\ \A i \in Independences :
                   i < fishSelf.independence => DartChance(i) < DartChance(fishSelf.independence)

(***************************************************************************)
(* StarEffect: the clock, the flares and the mouse clicks                   *)
(* (src/src/effects/star.rs). Times are in units of 1/180 s. A run of       *)
(* update calls between two events is one step.                             *)
(***************************************************************************)
\* The wrap of self.time, 10000.0 seconds.
TimeWrap == 10000 * Second

\* The cooldown of 0.2 seconds.
Cooldown == Hundredths(20)

\* The runs of update calls (number of calls, whether the flare draw of each call
\* succeeds): one call, 0.2 s, and 9999.9 s without a flare.
LongRun == (TimeWrap - Hundredths(10)) \div FIXED_DT
Runs == {<<1, FALSE>>, <<1, TRUE>>, <<12, FALSE>>, <<12, TRUE>>, <<LongRun, FALSE>>}

\* max_lifetime of a flare update pushes (a normal prominence at its shortest,
\* 10.0 * 0.7 s) and of one a click pushes (3.0 s).
Flare(max_lifetime) == [lifetime |-> 0, max_lifetime |-> max_lifetime]
Prominence == Flare(7 * Second)
ClickFlare == Flare(3 * Second)

\* self.time after calls more calls of update.
Clock(t, calls) ==
    IF t + calls * FIXED_DT > TimeWrap THEN t + calls * FIXED_DT - TimeWrap
    ELSE t + calls * FIXED_DT

\* A flare after calls more passes of self.flares.retain_mut, and whether it is
\* still kept.
Aged(flare, calls) == [flare EXCEPT !.lifetime = @ + calls * FIXED_DT]
Burning(flare) == flare.lifetime < flare.max_lifetime

\* The flares pushed during a run in which every call pushes one, as the last
\* call leaves them.
Erupted(calls) == [i \in 1..calls |-> Aged(Prominence, calls + 1 - i)]

\* StarEffect::new
StarInit ==
    /\ starTime = 0 /\ last_click_time = 0 /\ flares = <<>>
    /\ sinceClick = 0 /\ starClick = <<>> /\ starSteps = 0
    /\ starOp = "new"
    /\ IdleExcept("star")

\* StarEffect::update(FIXED_DT), called run[1] times in a row.
StarUpdate ==
    /\ starOp # "off" /\ starSteps < MaxStarSteps
    /\ \E run \in Runs :
           LET calls == run[1]
               aged == [i \in DOMAIN flares |-> Aged(flares[i], calls)]
               all == IF run[2] THEN aged \o Erupted(calls) ELSE aged
           IN  /\ starTime' = Clock(starTime, calls)
               /\ flares' = SelectSeq(all, Burning)
               /\ sinceClick' = IF sinceClick + calls * FIXED_DT > Second THEN Second
                                ELSE sinceClick + calls * FIXED_DT
    /\ starSteps' = starSteps + 1
    /\ starOp' = "update"
    /\ UNCHANGED <<last_click_time, starClick, nonStar>>

\* handle_event on a mouse-down: the two early returns.
Accepted(t, last, count) == ~(t - last < Cooldown) /\ ~(count >= 8)

\* StarEffect::handle_event(Event::Mouse(.. Down ..))
StarClick ==
    /\ starOp # "off" /\ starSteps < MaxStarSteps
    /\ LET ok == Accepted(starTime, last_click_time, Len(flares))
       IN  /\ last_click_time' = IF ok THEN starTime ELSE last_click_time
           /\ flares' = IF ok THEN Append(flares, ClickFlare) ELSE flares
           /\ sinceClick' = IF ok THEN 0 ELSE sinceClick
           /\ starClick' = [count |-> Len(flares), since |-> sinceClick,
                            pushed |-> IF ok THEN 1 ELSE 0]
    /\ starSteps' = starSteps + 1
    /\ starOp' = "click"
    /\ UNCHANGED <<starTime, nonStar>>

StarNext == StarUpdate \/ StarClick

StarSpec == StarInit /\ [][StarNext]_vars

(***************************************************************************)
(* Claims about the star's clicks                                           *)
(***************************************************************************)
\* C29: a mouse-down that finds fewer than 8 flares, at least 0.2 s of simulated
\* time after the last accepted click, pushes exactly one flare, also after the
\* clock has wrapped; any other mouse-down pushes none.
C29_ClickSpawnsFlare ==
    starOp = "click" =>
        starClick.pushed = IF starClick.count < 8 /\ starClick.since >= Cooldown THEN 1
                           ELSE 0

(***************************************************************************)
(* PlasmaEffect: the tendril list and the mouse                             *)
(* (src/src/effects/plasma.rs). Times are in units of 1/180 s. The segments *)
(* of a tendril and self.time, which the list does not depend on, are left  *)
(* out.                                                                     *)
(***************************************************************************)
\* f32::INFINITY
INFINITY == -1
Below(age, max_age) == max_age = INFINITY \/ age < max_age

\* The positions (column, row) of the mouse moves.
MousePositions == {<<0, 0>>, <<3, 2>>}

\* Tendril::new: the target is the mouse position if there is one; the edge
\* tendril's lifetime is 0.3 + fastrand::f32() * 0.2 seconds.
Tendril(position, edge_segment, is_mouse_tendril, roll) ==
    [age |-> 0,
     max_age |-> IF is_mouse_tendril THEN INFINITY
                 ELSE Draw(roll, Hundredths(30), Hundredths(20)),
     edge_segment |-> edge_segment,
     is_mouse_tendril |-> is_mouse_tendril,
     target |-> IF position # <<>> THEN position ELSE <<"edge", edge_segment>>]

\* The first segment among 0..11 that the fewest tendrils target.
Emptiest(ts) ==
    LET segment_counts ==
            [seg \in 0..11 |-> Cardinality({i \in DOMAIN ts : ts[i].edge_segment = seg})]
    IN  CHOOSE seg \in 0..11 :
            /\ \A other \in 0..11 : segment_counts[seg] <= segment_counts[other]
            /\ \A other \in 0..(seg - 1) : segment_counts[other] > segment_counts[seg]

\* The while loop that spawns edge tendrils up to 30.
RECURSIVE Filled(_, _)
Filled(ts, roll) ==
    IF Len(ts) < 30
    THEN Filled(Append(ts, Tendril(<<>>, Emptiest(ts), FALSE, roll)), roll)
    ELSE ts

\* The first retain of update keeping every tendril.
OfMode_All(ts, mouse_active) == ts

\* The first retain of update: the mouse tendrils when the mouse is active, the
\* others when it is not.
OfMode(ts, mouse_active) ==
    SelectSeq(ts, LAMBDA t : t.is_mouse_tendril = mouse_active)

\* PlasmaEffect::new
PlasmaInit ==
    /\ tendrils = <<>> /\ mouse = <<>> /\ mouse_inactive_time = 0
    /\ sinceMove = -1
    /\ plasmaOp = "new"
    /\ IdleExcept("plasma")

\* PlasmaEffect::update(FIXED_DT)
PlasmaUpdate ==
    /\ plasmaOp # "off"
    /\ mouse_inactive_time < MaxIdleTicks * FIXED_DT
    /\ \A i \in DOMAIN tendrils : tendrils[i].age < MaxIdleTicks * FIXED_DT
    /\ \E roll \in Rolls :
           LET idle == mouse_inactive_time + FIXED_DT
               position == IF idle > 2 * Second THEN <<>> ELSE mouse
               mouse_active == position # <<>>
               mode == OfMode(tendrils, mouse_active)
               list == IF mouse_active
                       THEN (IF \E i \in DOMAIN mode : mode[i].is_mouse_tendril THEN mode
                             ELSE Append(mode, Tendril(position, 0, TRUE, roll)))
                       ELSE Filled(mode, roll)
               aged == [i \in DOMAIN list |-> [list[i] EXCEPT !.age = @ + FIXED_DT]]
           IN  /\ mouse_inactive_time' = idle
               /\ mouse' = position
               /\ tendrils' = SelectSeq(aged, LAMBDA t : Below(t.age, t.max_age))
    /\ sinceMove' = IF sinceMove < 0 THEN sinceMove ELSE sinceMove + FIXED_DT
    /\ plasmaOp' = "update"
    /\ UNCHANGED nonPlasma

\* PlasmaEffect::handle_event(Event::Mouse(.. Moved ..))
PlasmaMove ==
    /\ plasmaOp # "off"
    /\ \E position \in MousePositions :
           /\ mouse' = <<position[1], position[2] * 2>>
           /\ tendrils' = [i \in DOMAIN tendrils |->
                              IF tendrils[i].is_mouse_tendril
                                     /\ \A j \in 1..(i - 1) : ~tendrils[j].is_mouse_tendril
                              THEN [tendrils[i] EXCEPT !.target = mouse']
                              ELSE tendrils[i]]
    /\ mouse_inactive_time' = 0
    /\ sinceMove' = 0
    /\ plasmaOp' = "move"
    /\ UNCHANGED nonPlasma

PlasmaNext == PlasmaUpdate \/ PlasmaMove

PlasmaSpec == PlasmaInit /\ [][PlasmaNext]_vars

(***************************************************************************)
(* Claims about the tendril list                                            *)
(***************************************************************************)
\* C30: after an update, if the mouse moved within the last 2.0 s the list holds
\* exactly one tendril, the mouse tendril, whose max_age is infinite; otherwise
\* it holds only edge tendrils, at most 30, each with edge_segment in 0..11; the
\* two kinds are never in the list together.
C30_TendrilModes ==
    plasmaOp = "update" =>
        IF sinceMove >= 0 /\ sinceMove <= 2 * Second
        THEN /\ Len(tendrils) = 1
             /\ tendrils[1].is_mouse_tendril
             /\ tendrils[1].max_age = INFINITY
        ELSE /\ Len(tendrils) <= 30
             /\ \A i \in DOMAIN tendrils :
                    ~tendrils[i].is_mouse_tendril /\ tendrils[i].edge_segment \in 0..11

\* The mouse tendril has outlived every edge tendril's lifetime, in an update
\* after which the mouse is still active.
C30_Witness ==
    /\ plasmaOp = "update" /\ sinceMove >= 0 /\ sinceMove <= 2 * Second
    /\ Len(tendrils) = 1 /\ tendrils[1].age > Hundredths(50)

====
